---- MODULE Spec2Model ----
(***************************************************************************)
(* storybook-rest-api: the source metadata extractor (parsers.js).         *)
(*                                                                         *)
(* Source text is a TLA+ string; a character is a string of length one.    *)
(* The regular expressions of the source are data (sequences of nodes)     *)
(* interpreted by a backtracking matcher with the priorities of the        *)
(* ECMAScript matcher (greedy before lazy, alternatives left to right,     *)
(* leftmost start first).                                                  *)
(* The backquote cannot be written inside a TLA+ string, so source text    *)
(* of the model writes the template-literal quote as the character BQ.     *)
(***************************************************************************)
EXTENDS Integers, Sequences, FiniteSets, TLC

VARIABLES fs, call, ret, log, globals, requests, server

vars == <<fs, call, ret, log, globals, requests, server>>

(***************************************************************************)
(* Characters and strings                                                  *)
(***************************************************************************)
Lower == "abcdefghijklmnopqrstuvwxyz"
Upper == "ABCDEFGHIJKLMNOPQRSTUVWXYZ"
Digits == "0123456789"

CharAt(s, i) == SubSeq(s, i, i)

CharsOf(s) == {CharAt(s, i) : i \in 1..Len(s)}

\* \w of the regular expressions
WordChars == CharsOf(Lower) \cup CharsOf(Upper) \cup CharsOf(Digits) \cup {"_"}

\* \s of the regular expressions, and the characters String.prototype.trim removes
WhiteSpace == {" ", "\t", "\n", "\r"}

\* the template-literal quote of the source text
BQ == "~"

Quotes == {"'", "\""}

IndexIn(c, alphabet) == CHOOSE i \in 1..Len(alphabet) : CharAt(alphabet, i) = c

toUpperCaseChar(c) ==
    IF c \in CharsOf(Lower) THEN CharAt(Upper, IndexIn(c, Lower)) ELSE c

toLowerCaseChar(c) ==
    IF c \in CharsOf(Upper) THEN CharAt(Lower, IndexIn(c, Upper)) ELSE c

RECURSIVE MapChars(_, _)
MapChars(s, up) ==
    IF s = "" THEN ""
    ELSE (IF up THEN toUpperCaseChar(Head(s)) ELSE toLowerCaseChar(Head(s)))
         \o MapChars(Tail(s), up)

toUpperCase(s) == MapChars(s, TRUE)
toLowerCase(s) == MapChars(s, FALSE)

\* String.prototype.startsWith / endsWith
startsWith(s, p) == Len(p) <= Len(s) /\ SubSeq(s, 1, Len(p)) = p
endsWith(s, p) == Len(p) <= Len(s) /\ SubSeq(s, Len(s) - Len(p) + 1, Len(s)) = p

\* the positions at which p occurs in s
Occurrences(s, p) == {i \in 1..(Len(s) - Len(p) + 1) : SubSeq(s, i, i + Len(p) - 1) = p}

Min(S) == CHOOSE x \in S : \A y \in S : x <= y
Max(S) == CHOOSE x \in S : \A y \in S : y <= x

\* String.prototype.indexOf, 1-based; 0 when absent
indexOf(s, p) == IF Occurrences(s, p) = {} THEN 0 ELSE Min(Occurrences(s, p))

includes(s, p) == \E i \in 1..(Len(s) - Len(p) + 1) : SubSeq(s, i, i + Len(p) - 1) = p

\* String.prototype.split with a non-empty separator
RECURSIVE split(_, _)
split(s, sep) ==
    LET i == indexOf(s, sep) IN
    IF i = 0 THEN <<s>>
    ELSE <<SubSeq(s, 1, i - 1)>> \o split(SubSeq(s, i + Len(sep), Len(s)), sep)

\* Array.prototype.join
RECURSIVE join(_, _)
join(parts, sep) ==
    IF parts = <<>> THEN ""
    ELSE IF Len(parts) = 1 THEN parts[1]
    ELSE parts[1] \o sep \o join(Tail(parts), sep)

\* String.prototype.trim
trim(s) ==
    LET solid == {i \in 1..Len(s) : CharAt(s, i) \notin WhiteSpace}
    IN IF solid = {} THEN "" ELSE SubSeq(s, Min(solid), Max(solid))

RECURSIVE NatToStr(_)
NatToStr(n) ==
    IF n < 10 THEN CharAt(Digits, n + 1)
    ELSE NatToStr(n \div 10) \o CharAt(Digits, (n % 10) + 1)

\* Number.prototype.toString of an integer
IntToStr(n) == IF n < 0 THEN "-" \o NatToStr(-n) ELSE NatToStr(n)

(***************************************************************************)
(* Regular expressions: nodes and the backtracking matcher                 *)
(***************************************************************************)
Lit(str) == [t |-> "lit", s |-> str]
In(S) == [t |-> "set", cs |-> S, neg |-> FALSE]
NotIn(S) == [t |-> "set", cs |-> S, neg |-> TRUE]
AnyChar == NotIn({})
Star(n) == [t |-> "star", c |-> n]
Plus(n) == [t |-> "plus", c |-> n]
LazyStar(n) == [t |-> "lazy", c |-> n]
Opt(seq) == [t |-> "opt", sub |-> seq]
Alt(alts) == [t |-> "alt", alts |-> alts]
Grp(k, seq) == [t |-> "grp", k |-> k, sub |-> seq]
Open(k) == [t |-> "open", k |-> k]
Close(k) == [t |-> "close", k |-> k]
Bol == [t |-> "bol"]
Eol == [t |-> "eol"]

\* at most four capture groups occur in one expression of the source
NoCaps == [k \in 1..4 |-> [b |-> 0, e |-> 0, set |-> FALSE]]

Fail == [ok |-> FALSE, start |-> 0, end |-> 0, caps |-> NoCaps]

CharMatches(n, s, i) ==
    /\ i <= Len(s)
    /\ (CharAt(s, i) \in n.cs) # n.neg

\* the end of the run of characters of class n that starts at i
RunEnd(n, s, i) ==
    CHOOSE e \in i..(Len(s) + 1) :
        /\ e = Len(s) + 1 \/ ~CharMatches(n, s, e)
        /\ \A j \in i..(e - 1) : CharMatches(n, s, j)

\* of the results of continuing at the positions js, the one at the largest
\* (greedy) or the smallest (lazy) position that succeeds
Pick(results, greedy) ==
    LET good == {x \in results : x.r.ok}
    IN IF good = {} THEN Fail
       ELSE IF greedy THEN (CHOOSE x \in good : \A y \in good : y.j <= x.j).r
       ELSE (CHOOSE x \in good : \A y \in good : x.j <= y.j).r

\* The matcher: todo is the rest of the expression, i the position in s, ml the
\* m flag (^ and $ match at line breaks).  A quantified character class tries
\* its run lengths longest first (greedy) or shortest first (lazy) and keeps the
\* first for which the rest of the expression matches, as backtracking does.
RECURSIVE MatchAt(_, _, _, _, _)
MatchAt(todo, s, i, caps, ml) ==
    IF todo = <<>> THEN [ok |-> TRUE, start |-> 0, end |-> i, caps |-> caps]
    ELSE
    LET n == Head(todo)
        rest == Tail(todo)
    IN
    CASE n.t = "lit" ->
           IF i + Len(n.s) - 1 <= Len(s) /\ SubSeq(s, i, i + Len(n.s) - 1) = n.s
           THEN MatchAt(rest, s, i + Len(n.s), caps, ml)
           ELSE Fail
      [] n.t = "set" ->
           IF CharMatches(n, s, i) THEN MatchAt(rest, s, i + 1, caps, ml) ELSE Fail
      [] n.t = "star" ->
           Pick({[j |-> j, r |-> MatchAt(rest, s, j, caps, ml)] :
                    j \in i..RunEnd(n.c, s, i)}, TRUE)
      [] n.t = "plus" ->
           Pick({[j |-> j, r |-> MatchAt(rest, s, j, caps, ml)] :
                    j \in (i + 1)..RunEnd(n.c, s, i)}, TRUE)
      [] n.t = "lazy" ->
           Pick({[j |-> j, r |-> MatchAt(rest, s, j, caps, ml)] :
                    j \in i..RunEnd(n.c, s, i)}, FALSE)
      [] n.t = "opt" ->
           LET r == MatchAt(n.sub \o rest, s, i, caps, ml)
           IN IF r.ok THEN r ELSE MatchAt(rest, s, i, caps, ml)
      [] n.t = "alt" ->
           IF n.alts = <<>> THEN Fail
           ELSE LET r == MatchAt(Head(n.alts) \o rest, s, i, caps, ml)
                IN IF r.ok THEN r
                   ELSE MatchAt(<<Alt(Tail(n.alts))>> \o rest, s, i, caps, ml)
      [] n.t = "grp" ->
           MatchAt(<<Open(n.k)>> \o n.sub \o <<Close(n.k)>> \o rest, s, i, caps, ml)
      [] n.t = "open" ->
           MatchAt(rest, s, i, [caps EXCEPT ![n.k] = [b |-> i, e |-> 0, set |-> FALSE]], ml)
      [] n.t = "close" ->
           MatchAt(rest, s, i,
                   [caps EXCEPT ![n.k] = [b |-> caps[n.k].b, e |-> i, set |-> TRUE]], ml)
      [] n.t = "bol" ->
           IF i = 1 \/ (ml /\ CharAt(s, i - 1) = "\n")
           THEN MatchAt(rest, s, i, caps, ml) ELSE Fail
      [] n.t = "eol" ->
           IF i = Len(s) + 1 \/ (ml /\ CharAt(s, i) = "\n")
           THEN MatchAt(rest, s, i, caps, ml) ELSE Fail

\* the match at every start position at which the expression matches
MatchesOf(re, s, ml) ==
    {x \in {[j |-> j, r |-> [MatchAt(re, s, j, NoCaps, ml) EXCEPT !.start = j]] :
               j \in 1..(Len(s) + 1)} : x.r.ok}

\* RegExp.prototype.exec with lastIndex = from - 1: the leftmost match from there
NextMatch(found, from) == Pick({x \in found : x.j >= from}, FALSE)

\* String.prototype.match without the g flag
match(s, re) == NextMatch(MatchesOf(re, s, FALSE), 1)

\* every match of a g-flagged expression in order: the exec loop, and match with g
\* (no such expression of the source matches the empty string)
RECURSIVE Successive(_, _)
Successive(found, from) ==
    LET r == NextMatch(found, from) IN
    IF ~r.ok THEN <<>> ELSE <<r>> \o Successive(found, r.end)

AllMatches(re, s, ml) == Successive(MatchesOf(re, s, ml), 1)

\* s without the parts the matches ms cover
RECURSIVE Without(_, _, _)
Without(s, ms, from) ==
    IF ms = <<>> THEN SubSeq(s, from, Len(s))
    ELSE SubSeq(s, from, Head(ms).start - 1) \o Without(s, Tail(ms), Head(ms).end)

\* String.prototype.replace with a g-flagged expression and the replacement ''
RemoveAll(re, s, ml) == Without(s, AllMatches(re, s, ml), 1)

\* String.prototype.replace without the g flag and the replacement ''
RemoveFirst(re, s) ==
    LET r == match(s, re)
    IN IF r.ok THEN SubSeq(s, 1, r.start - 1) \o SubSeq(s, r.end, Len(s)) ELSE s

\* the text of the whole match, and of capture group k ("" when it did not take part)
Matched(s, r) == SubSeq(s, r.start, r.end - 1)
HasGroup(r, k) == r.caps[k].set
Group(s, r, k) == IF r.caps[k].set THEN SubSeq(s, r.caps[k].b, r.caps[k].e - 1) ELSE ""

(***************************************************************************)
(* JavaScript values                                                       *)
(***************************************************************************)
JStr(x) == [t |-> "string", s |-> x, n |-> 0, b |-> FALSE]
JBool(x) == [t |-> "boolean", s |-> "", n |-> 0, b |-> x]
JNum(x) == [t |-> "number", s |-> "", n |-> x, b |-> FALSE]
JUndefined == [t |-> "undefined", s |-> "", n |-> 0, b |-> FALSE]
JNull == [t |-> "null", s |-> "", n |-> 0, b |-> FALSE]
\* a value with no string conversion: a template literal raises a TypeError on it
JSymbol == [t |-> "symbol", s |-> "", n |-> 0, b |-> FALSE]

\* ToBoolean
Truthy(v) ==
    CASE v.t = "string" -> v.s # ""
      [] v.t = "boolean" -> v.b
      [] v.t = "number" -> v.n # 0
      [] v.t \in {"undefined", "null"} -> FALSE
      [] OTHER -> TRUE

\* whether ToString (a template literal's ${...}) returns; it raises on a Symbol
HasToString(v) == v.t # "symbol"

ToStringJS(v) ==
    CASE v.t = "string" -> v.s
      [] v.t = "boolean" -> IF v.b THEN "true" ELSE "false"
      [] v.t = "number" -> IntToStr(v.n)
      [] v.t = "undefined" -> "undefined"
      [] v.t = "null" -> "null"
      [] OTHER -> ""

\* An object is the sequence of its own entries in Object.entries order.
\* An absent argument is [defined |-> FALSE].
Obj(entries) == [defined |-> TRUE, entries |-> entries]
NoObj == [defined |-> FALSE, entries |-> <<>>]

(***************************************************************************)
(* Results of the public functions                                         *)
(***************************************************************************)
RetNull == [k |-> "null"]
RetThrow == [k |-> "throw"]
RetString(x) == [k |-> "string", s |-> x]

(***************************************************************************)
(* generateUsageExample                                                    *)
(***************************************************************************)
\* the callback of .map(([key, value]) => ...)
\* a faulty variant: the string test made before the tests for true and false
AttrOfStringFirst(key, value, framework) ==
    IF value.t = "string"
    THEN IF startsWith(value.s, "'") \/ startsWith(value.s, "\"")
         THEN key \o "=" \o value.s
         ELSE key \o "=\"" \o value.s \o "\""
    ELSE IF value = JBool(TRUE)
    THEN IF framework = "angular" THEN "[" \o key \o "]=\"true\"" ELSE key \o "={true}"
    ELSE IF value = JBool(FALSE)
    THEN IF framework = "angular" THEN "[" \o key \o "]=\"false\"" ELSE key \o "={false}"
    ELSE IF framework = "angular"
         THEN "[" \o key \o "]=\"" \o ToStringJS(value) \o "\""
         ELSE key \o "={" \o ToStringJS(value) \o "}"

AttrOf(key, value, framework) ==
    IF value = JStr("true") \/ value = JBool(TRUE)
    THEN IF framework = "angular" THEN "[" \o key \o "]=\"true\"" ELSE key \o "={true}"
    ELSE IF value = JStr("false") \/ value = JBool(FALSE)
    THEN IF framework = "angular" THEN "[" \o key \o "]=\"false\"" ELSE key \o "={false}"
    ELSE IF value.t = "string"
    THEN IF startsWith(value.s, "'") \/ startsWith(value.s, "\"")
         THEN key \o "=" \o value.s
         ELSE key \o "=\"" \o value.s \o "\""
    ELSE IF framework = "angular"
         THEN "[" \o key \o "]=\"" \o ToStringJS(value) \o "\""
         ELSE key \o "={" \o ToStringJS(value) \o "}"

\* whether the callback raises on this value: only its last branch converts a
\* value that is not a string
AttrRaises(value) ==
    /\ value \notin {JStr("true"), JBool(TRUE), JStr("false"), JBool(FALSE)}
    /\ value.t # "string"
    /\ ~HasToString(value)

\* a faulty variant: the parameter framework without its default value
DefaultFrameworkNone(framework) == ToStringJS(framework)

\* the default value of the parameter framework
DefaultFramework(framework) ==
    IF framework.t = "undefined" THEN "angular" ELSE ToStringJS(framework)

generateUsageExample(selector, args, storyName, framework) ==
    IF ~Truthy(selector) THEN RetNull
    ELSE
    LET fw == DefaultFramework(framework)
        entries == IF args.defined THEN args.entries ELSE <<>>
        attrs == [i \in 1..Len(entries) |-> AttrOf(entries[i].key, entries[i].val, fw)]
    IN
    IF \/ \E i \in 1..Len(entries) : AttrRaises(entries[i].val)
       \/ ~HasToString(storyName)
       \/ ~HasToString(selector)
    THEN RetThrow
    ELSE RetString("<!-- " \o ToStringJS(storyName) \o " Example -->\n<"
                   \o ToStringJS(selector) \o "\n    " \o join(attrs, "\n    ")
                   \o ">\n</" \o ToStringJS(selector) \o ">")

(***************************************************************************)
(* Objects: own entries in property order                                  *)
(***************************************************************************)
None == [set |-> FALSE, v |-> ""]
Some(x) == [set |-> TRUE, v |-> x]

RECURSIVE StrToNat(_)
StrToNat(s) ==
    IF s = "" THEN 0
    ELSE 10 * StrToNat(SubSeq(s, 1, Len(s) - 1)) + (IndexIn(CharAt(s, Len(s)), Digits) - 1)

\* an integer-like key ("0", "7", "12"): such keys come first, in ascending order
IsIndexKey(k) ==
    /\ k # ""
    /\ \A i \in 1..Len(k) : CharAt(k, i) \in CharsOf(Digits)
    /\ (Len(k) > 1 => Head(k) # "0")

HasKey(entries, k) == \E i \in 1..Len(entries) : entries[i].key = k

Get(entries, k) == entries[CHOOSE i \in 1..Len(entries) : entries[i].key = k].val

\* the number of entries that stay before a new key k
InsertPos(entries, k) ==
    IF IsIndexKey(k)
    THEN Cardinality({i \in 1..Len(entries) :
                        IsIndexKey(entries[i].key) /\ StrToNat(entries[i].key) < StrToNat(k)})
    ELSE Len(entries)

\* obj[k] = v
ObjSet(entries, k, v) ==
    IF HasKey(entries, k)
    THEN [i \in 1..Len(entries) |->
            IF entries[i].key = k THEN [key |-> k, val |-> v] ELSE entries[i]]
    ELSE LET n == InsertPos(entries, k)
         IN SubSeq(entries, 1, n) \o <<[key |-> k, val |-> v]>>
            \o SubSeq(entries, n + 1, Len(entries))

Keys(entries) == [i \in 1..Len(entries) |-> entries[i].key]

(***************************************************************************)
(* The file system, and path                                               *)
(***************************************************************************)
NoNode == [kind |-> "none", data |-> ""]
File(data) == [kind |-> "file", data |-> data]
Dir == [kind |-> "dir", data |-> ""]

\* what the file system holds at path p
NodeAt(p) == IF p \in DOMAIN fs THEN fs[p] ELSE NoNode

\* fs.existsSync: true of a file and of a directory
existsSync(p) == NodeAt(p).kind # "none"

\* whether fs.readFileSync raises (ENOENT, EISDIR)
ReadRaises(p) == NodeAt(p).kind # "file"

\* a faulty variant: a read that answers from the contents seen by the previous call
readFileSyncCached(p) ==
    IF log # <<>> /\ p \in DOMAIN log[1].fs /\ log[1].fs[p].kind = "file"
    THEN log[1].fs[p].data
    ELSE NodeAt(p).data

\* fs.readFileSync(p, 'utf8')
readFileSync(p) == NodeAt(p).data

\* process.cwd()
Cwd == "/work"

RECURSIVE NormalizeSegments(_, _)
NormalizeSegments(segs, acc) ==
    IF segs = <<>> THEN acc
    ELSE LET h == Head(segs) IN
         IF h = "" \/ h = "." THEN NormalizeSegments(Tail(segs), acc)
         ELSE IF h = ".."
         THEN NormalizeSegments(Tail(segs),
                                IF acc = <<>> THEN acc ELSE SubSeq(acc, 1, Len(acc) - 1))
         ELSE NormalizeSegments(Tail(segs), Append(acc, h))

\* path.resolve(dir, rel) on POSIX
resolve(dir, rel) ==
    LET from == IF startsWith(rel, "/") THEN rel
                ELSE IF startsWith(dir, "/") THEN dir \o "/" \o rel
                ELSE Cwd \o "/" \o dir \o "/" \o rel
    IN "/" \o join(NormalizeSegments(split(from, "/"), <<>>), "/")

RECURSIVE LastIndexOf(_, _, _)
LastIndexOf(s, c, i) ==
    IF i = 0 THEN 0 ELSE IF CharAt(s, i) = c THEN i ELSE LastIndexOf(s, c, i - 1)

RECURSIVE StripSlashes(_)
StripSlashes(p) ==
    IF Len(p) > 1 /\ CharAt(p, Len(p)) = "/" THEN StripSlashes(SubSeq(p, 1, Len(p) - 1))
    ELSE p

\* path.dirname on POSIX
dirname(path) ==
    LET p == StripSlashes(path)
        i == LastIndexOf(p, "/", Len(p))
    IN IF i = 0 THEN "."
       ELSE IF i = 1 THEN "/"
       ELSE StripSlashes(SubSeq(p, 1, i - 1))

\* the outermost try { ... } catch (error) { return null; }
Catch(r) == IF r.k = "throw" THEN RetNull ELSE r

(***************************************************************************)
(* extractComponentDocs                                                    *)
(***************************************************************************)
WS == In(WhiteSpace)
W == In(WordChars)

\* /^\s*\*\s?/gm
LeaderRe == <<Bol, Star(WS), Lit("*"), Opt(<<WS>>)>>

\* .replace(/^\s*\*\s?/gm, '').trim()
CommentText(raw) == trim(RemoveAll(LeaderRe, raw, TRUE))

\* /\/\*\*\s*([\s\S]*?)\s*\*\/\s*(?:@Component|export\s+(?:default\s+)?(?:function|class|const))/
classDocRe ==
    <<Lit("/**"), Star(WS), Grp(1, <<LazyStar(AnyChar)>>), Star(WS), Lit("*/"), Star(WS),
      Alt(<< <<Lit("@Component")>>,
             <<Lit("export"), Plus(WS), Opt(<<Lit("default"), Plus(WS)>>),
               Alt(<< <<Lit("function")>>, <<Lit("class")>>, <<Lit("const")>> >>)>> >>)>>

\* /selector:\s*['"]([^'"]+)['"]/
selectorRe ==
    <<Lit("selector:"), Star(WS), In(Quotes), Grp(1, <<Plus(NotIn(Quotes))>>), In(Quotes)>>

\* /template:\s*`([\s\S]*?)`/
templateRe ==
    <<Lit("template:"), Star(WS), Lit(BQ), Grp(1, <<LazyStar(AnyChar)>>), Lit(BQ)>>

\* /templateUrl:\s*['"]([^'"]+)['"]/
templateUrlRe ==
    <<Lit("templateUrl:"), Star(WS), In(Quotes), Grp(1, <<Plus(NotIn(Quotes))>>), In(Quotes)>>

\* /\/\*\*\s*([\s\S]*?)\s*\*\/\s*@(Input|Output)\(\)\s*(\w+)/g
propDocRegex ==
    <<Lit("/**"), Star(WS), Grp(1, <<LazyStar(AnyChar)>>), Star(WS), Lit("*/"), Star(WS),
      Lit("@"), Grp(2, <<Alt(<< <<Lit("Input")>>, <<Lit("Output")>> >>)>>), Lit("()"),
      Star(WS), Grp(3, <<Plus(W)>>)>>

\* /interface\s+\w*Props\s*\{([\s\S]*?)\}/
propsInterfaceRe ==
    <<Lit("interface"), Plus(WS), Star(W), Lit("Props"), Star(WS), Lit("{"),
      Grp(1, <<LazyStar(AnyChar)>>), Lit("}")>>

\* /\/\*\*\s*([\s\S]*?)\s*\*\/\s*(\w+)(\?)?:\s*([^;]+)/g
propRegex ==
    <<Lit("/**"), Star(WS), Grp(1, <<LazyStar(AnyChar)>>), Star(WS), Lit("*/"), Star(WS),
      Grp(2, <<Plus(W)>>), Opt(<<Grp(3, <<Lit("?")>>)>>), Lit(":"), Star(WS),
      Grp(4, <<Plus(NotIn({";"}))>>)>>

\* /(\w+)(?:\?)?:\s*([^=;]+)(?:\s*=\s*([^;]+))?;/g
propTypeRegex ==
    <<Grp(1, <<Plus(W)>>), Opt(<<Lit("?")>>), Lit(":"), Star(WS),
      Grp(2, <<Plus(NotIn({"=", ";"}))>>),
      Opt(<<Star(WS), Lit("="), Star(WS), Grp(3, <<Plus(NotIn({";"}))>>)>>), Lit(";")>>

\* /@Component[\s\S]*?export\s+class\s+\w+[\s\S]*?\n\}/
classRe ==
    <<Lit("@Component"), LazyStar(AnyChar), Lit("export"), Plus(WS), Lit("class"), Plus(WS),
      Plus(W), LazyStar(AnyChar), Lit("\n}")>>

\* /export\s+(?:default\s+)?function\s+\w+[\s\S]*?\n\}/
funcRe ==
    <<Lit("export"), Plus(WS), Opt(<<Lit("default"), Plus(WS)>>), Lit("function"), Plus(WS),
      Plus(W), LazyStar(AnyChar), Lit("\n}")>>

\* docs.description
DocsDescription(content) ==
    LET m == match(content, classDocRe)
    IN IF m.ok THEN CommentText(Group(content, m, 1)) ELSE ""

\* docs.selector
DocsSelector(content) ==
    LET m == match(content, selectorRe)
    IN IF m.ok THEN Some(Group(content, m, 1)) ELSE None

\* docs.templateUrl
DocsTemplateUrl(content) ==
    LET m == match(content, templateUrlRe)
    IN IF m.ok THEN Some(Group(content, m, 1)) ELSE None

\* the file a templateUrl names
TemplatePath(componentFilePath, url) == resolve(dirname(componentFilePath), url)

\* a faulty variant: the external template is read only when there is no inline template
DocsTemplateInlineWins(componentFilePath, content) ==
    LET inline == match(content, templateRe)
        url == DocsTemplateUrl(content)
    IN IF inline.ok THEN Some(trim(Group(content, inline, 1)))
       ELSE IF url.set /\ existsSync(TemplatePath(componentFilePath, url.v))
       THEN Some(trim(readFileSync(TemplatePath(componentFilePath, url.v))))
       ELSE None

\* docs.template: the inline template, replaced by the external file when it exists
DocsTemplate(componentFilePath, content) ==
    LET inline == match(content, templateRe)
        url == DocsTemplateUrl(content)
    IN IF url.set /\ existsSync(TemplatePath(componentFilePath, url.v))
       THEN Some(trim(readFileSync(TemplatePath(componentFilePath, url.v))))
       ELSE IF inline.ok THEN Some(trim(Group(content, inline, 1)))
       ELSE None

\* whether reading the external template raises
TemplateReadRaises(componentFilePath, content) ==
    LET url == DocsTemplateUrl(content)
    IN /\ url.set
       /\ existsSync(TemplatePath(componentFilePath, url.v))
       /\ ReadRaises(TemplatePath(componentFilePath, url.v))

\* the record of one @Input()/@Output() match
DecoratedProperty(content, m) ==
    LET description == CommentText(Group(content, m, 1))
    IN [description |-> trim(RemoveAll(<<Lit("@required")>>, description, FALSE)),
        type |-> Some(toLowerCase(Group(content, m, 2))),
        required |-> includes(description, "@required"),
        tsType |-> None,
        defaultValue |-> None]

\* the while loop over propDocRegex.exec(content)
RECURSIVE AddDecorated(_, _, _)
AddDecorated(props, content, ms) ==
    IF ms = <<>> THEN props
    ELSE AddDecorated(ObjSet(props, Group(content, Head(ms), 3),
                             DecoratedProperty(content, Head(ms))),
                      content, Tail(ms))

\* the record of one field of the Props interface
InterfaceProperty(propsStr, m) ==
    [description |-> CommentText(Group(propsStr, m, 1)),
     type |-> None,
     required |-> ~HasGroup(m, 3),
     tsType |-> Some(trim(Group(propsStr, m, 4))),
     defaultValue |-> None]

\* the while loop over propRegex.exec(propsStr)
RECURSIVE AddInterface(_, _, _)
AddInterface(props, propsStr, ms) ==
    IF ms = <<>> THEN props
    ELSE AddInterface(ObjSet(props, Group(propsStr, Head(ms), 2),
                             InterfaceProperty(propsStr, Head(ms))),
                      propsStr, Tail(ms))

\* the names every object inherits from Object.prototype: docs.properties[name]
\* is truthy for them although docs.properties has no such key
InheritedNames ==
    {"constructor", "__proto__", "hasOwnProperty", "isPrototypeOf", "propertyIsEnumerable",
     "toLocaleString", "toString", "valueOf", "__defineGetter__", "__defineSetter__",
     "__lookupGetter__", "__lookupSetter__"}

\* the object that docs.properties[name] gives for an inherited name
SharedObject(name) ==
    IF name = "__proto__" THEN "Object.prototype"
    ELSE IF name = "constructor" THEN "Object"
    ELSE "Object.prototype." \o name

\* object.field = value on an object of the realm
GlobalSet(g, object, field, value) ==
    {w \in g : ~(w.object = object /\ w.field = field)}
    \cup {[object |-> object, field |-> field, value |-> value]}

\* one match of propTypeRegex, seen from the realm: the name of an inherited
\* member passes the test of line 93 and the assignments land on the shared
\* object
BackfillShared(g, props, content, m) ==
    LET propertyName == Group(content, m, 1)
        type == trim(Group(content, m, 2))
        defaultValue == IF Group(content, m, 3) # "" THEN trim(Group(content, m, 3)) ELSE ""
        typed == GlobalSet(g, SharedObject(propertyName), "tsType", type)
    IN IF ~HasKey(props, propertyName) /\ propertyName \in InheritedNames
       THEN IF defaultValue # ""
            THEN GlobalSet(typed, SharedObject(propertyName), "defaultValue", defaultValue)
            ELSE typed
       ELSE g

RECURSIVE BackfillSharedAll(_, _, _, _)
BackfillSharedAll(g, props, content, ms) ==
    IF ms = <<>> THEN g
    ELSE BackfillSharedAll(BackfillShared(g, props, content, Head(ms)), props, content, Tail(ms))

\* a faulty variant: a declaration of an unknown name creates a property
BackfillCreating(props, content, m) ==
    LET propertyName == Group(content, m, 1)
        type == trim(Group(content, m, 2))
        defaultValue == IF Group(content, m, 3) # "" THEN trim(Group(content, m, 3)) ELSE ""
        known == IF HasKey(props, propertyName) THEN Get(props, propertyName)
                 ELSE [description |-> "", type |-> None, required |-> FALSE,
                       tsType |-> None, defaultValue |-> None]
    IN ObjSet(props, propertyName,
              [known EXCEPT
                 !.tsType = Some(type),
                 !.defaultValue = IF defaultValue # "" THEN Some(defaultValue) ELSE @])

\* one match of propTypeRegex: tsType and defaultValue of a known property
Backfill(props, content, m) ==
    LET propertyName == Group(content, m, 1)
        type == trim(Group(content, m, 2))
        defaultValue == IF Group(content, m, 3) # "" THEN trim(Group(content, m, 3)) ELSE ""
    IN IF HasKey(props, propertyName)
       THEN ObjSet(props, propertyName,
                   [Get(props, propertyName) EXCEPT
                      !.tsType = Some(type),
                      !.defaultValue = IF defaultValue # "" THEN Some(defaultValue) ELSE @])
       ELSE props

\* the while loop over propTypeRegex.exec(content)
RECURSIVE BackfillAll(_, _, _)
BackfillAll(props, content, ms) ==
    IF ms = <<>> THEN props
    ELSE BackfillAll(Backfill(props, content, Head(ms)), content, Tail(ms))

\* docs.properties after the @Input/@Output scan
DecoratedProperties(content) ==
    AddDecorated(<<>>, content, AllMatches(propDocRegex, content, FALSE))

\* docs.properties after the Props interface scan
InterfaceProperties(props, content) ==
    LET m == match(content, propsInterfaceRe)
        propsStr == Group(content, m, 1)
    IN IF m.ok
       THEN AddInterface(props, propsStr, AllMatches(propRegex, propsStr, FALSE))
       ELSE props

\* docs.properties
DocsProperties(content) ==
    BackfillAll(InterfaceProperties(DecoratedProperties(content), content), content,
                AllMatches(propTypeRegex, content, FALSE))

\* docs.componentCode
DocsComponentCode(content) ==
    LET classMatch == match(content, classRe)
        funcMatch == match(content, funcRe)
    IN IF classMatch.ok THEN Some(Matched(content, classMatch))
       ELSE IF funcMatch.ok THEN Some(Matched(content, funcMatch))
       ELSE None

RetDocs(d) == [k |-> "docs", docs |-> d]

\* the body of the try block
extractComponentDocsBody(componentFilePath) ==
    IF ~existsSync(componentFilePath) THEN RetNull
    ELSE IF ReadRaises(componentFilePath) THEN RetThrow
    ELSE LET content == readFileSync(componentFilePath) IN
         IF TemplateReadRaises(componentFilePath, content) THEN RetThrow
         ELSE RetDocs([description |-> DocsDescription(content),
                       selector |-> DocsSelector(content),
                       template |-> DocsTemplate(componentFilePath, content),
                       templateUrl |-> DocsTemplateUrl(content),
                       properties |-> DocsProperties(content),
                       componentCode |-> DocsComponentCode(content)])

extractComponentDocs(componentFilePath) == Catch(extractComponentDocsBody(componentFilePath))

\* the realm after extractComponentDocs(componentFilePath): the scan of lines
\* 86-99 runs when the file was read and the template did not raise
extractComponentDocsShared(g, componentFilePath) ==
    IF \/ ~existsSync(componentFilePath)
       \/ ReadRaises(componentFilePath)
       \/ TemplateReadRaises(componentFilePath, readFileSync(componentFilePath))
    THEN g
    ELSE BackfillSharedAll(g, InterfaceProperties(DecoratedProperties(
                                                     readFileSync(componentFilePath)),
                                                  readFileSync(componentFilePath)),
                           readFileSync(componentFilePath),
                           AllMatches(propTypeRegex, readFileSync(componentFilePath), FALSE))

(***************************************************************************)
(* extractStoryExamples                                                    *)
(***************************************************************************)
\* . of the regular expressions (without the s flag)
Dot == NotIn({"\n", "\r"})

\* /^import\s+.*?;$/gm
importRe == <<Bol, Lit("import"), Plus(WS), LazyStar(Dot), Lit(";"), Eol>>

\* /const\s+meta[^=]*=\s*\{[\s\S]*?\};?\s*export\s+default\s+meta/
metaRe ==
    <<Lit("const"), Plus(WS), Lit("meta"), Star(NotIn({"="})), Lit("="), Star(WS), Lit("{"),
      LazyStar(AnyChar), Lit("}"), Opt(<<Lit(";")>>), Star(WS), Lit("export"), Plus(WS),
      Lit("default"), Plus(WS), Lit("meta")>>

\* /export\s+default\s+\{[\s\S]*?\}\s*(?:as|;)/
altMetaRe ==
    <<Lit("export"), Plus(WS), Lit("default"), Plus(WS), Lit("{"), LazyStar(AnyChar),
      Lit("}"), Star(WS), Alt(<< <<Lit("as")>>, <<Lit(";")>> >>)>>

\* /export\s+const\s+(\w+)(?::\s*\w+)?\s*=\s*\{([\s\S]*?)\};/g
storyRegex ==
    <<Lit("export"), Plus(WS), Lit("const"), Plus(WS), Grp(1, <<Plus(W)>>),
      Opt(<<Lit(":"), Star(WS), Plus(W)>>), Star(WS), Lit("="), Star(WS), Lit("{"),
      Grp(2, <<LazyStar(AnyChar)>>), Lit("};")>>

\* /args:\s*\{([\s\S]*?)\}/
argsRe == <<Lit("args:"), Star(WS), Lit("{"), Grp(1, <<LazyStar(AnyChar)>>), Lit("}")>>

\* /,\s*$/
trailingCommaRe == <<Lit(","), Star(WS), Eol>>

\* examples.imports
StoryImports(content) ==
    LET ms == AllMatches(importRe, content, TRUE)
    IN [i \in 1..Len(ms) |-> Matched(content, ms[i])]

\* examples.meta
StoryMeta(content) ==
    LET metaMatch == match(content, metaRe)
        altMetaMatch == match(content, altMetaRe)
    IN IF metaMatch.ok THEN Some(Matched(content, metaMatch))
       ELSE IF altMetaMatch.ok THEN Some(Matched(content, altMetaMatch))
       ELSE None

\* a faulty variant: the value without the quotes around it
RawArgUnquoted(args, line) ==
    LET colon == indexOf(line, ":")
        key == trim(SubSeq(line, 1, colon - 1))
        value == trim(SubSeq(line, colon + 1, Len(line)))
        from == IF value # "" /\ CharAt(value, 1) \in {"'", "\""} THEN 2 ELSE 1
        to == IF value # "" /\ CharAt(value, Len(value)) \in {"'", "\""}
              THEN Len(value) - 1 ELSE Len(value)
    IN IF colon > 1 /\ key # "" THEN ObjSet(args, key, SubSeq(value, from, to)) ELSE args

\* the callback of argLines.forEach: one fragment of the comma split
RawArg(args, line) ==
    LET colon == indexOf(line, ":")
        key == trim(SubSeq(line, 1, colon - 1))
        value == RemoveFirst(trailingCommaRe, trim(SubSeq(line, colon + 1, Len(line))))
    IN IF colon > 1 /\ key # "" THEN ObjSet(args, key, value) ELSE args

RECURSIVE RawArgs(_, _)
RawArgs(args, argLines) ==
    IF argLines = <<>> THEN args
    ELSE RawArgs(RawArg(args, Head(argLines)), Tail(argLines))

\* the args of one story: raw text, no coercion
StoryArgs(storyContent) ==
    LET argsMatch == match(storyContent, argsRe)
    IN IF argsMatch.ok THEN RawArgs(<<>>, split(Group(storyContent, argsMatch, 1), ","))
       ELSE <<>>

\* a faulty variant: the matched declaration itself as the code of the story
StoryCodeVerbatim(content, m) == Matched(content, m)

\* the template literal `export const ${storyName} = {${storyContent}};`
StoryCode(content, m) ==
    "export const " \o Group(content, m, 1) \o " = {" \o Group(content, m, 2) \o "};"

\* the while loop over storyRegex.exec(content)
RECURSIVE AddStories(_, _, _)
AddStories(stories, content, ms) ==
    IF ms = <<>> THEN stories
    ELSE AddStories(ObjSet(stories, Group(content, Head(ms), 1),
                           [code |-> StoryCode(content, Head(ms)),
                            args |-> StoryArgs(Group(content, Head(ms), 2))]),
                    content, Tail(ms))

RetExamples(e) == [k |-> "examples", examples |-> e]

\* the body of the try block
extractStoryExamplesBody(storyFilePath) ==
    IF ~existsSync(storyFilePath) THEN RetNull
    ELSE IF ReadRaises(storyFilePath) THEN RetThrow
    ELSE LET content == readFileSync(storyFilePath) IN
         RetExamples([stories |-> AddStories(<<>>, content,
                                             AllMatches(storyRegex, content, FALSE)),
                      imports |-> StoryImports(content),
                      meta |-> StoryMeta(content)])

extractStoryExamples(storyFilePath) == Catch(extractStoryExamplesBody(storyFilePath))

(***************************************************************************)
(* Number(value) and isNaN(value) of a string                              *)
(***************************************************************************)
\* a number that is no integer, denoted by its literal
JNumLit(text) == [t |-> "number", s |-> text, n |-> 0, b |-> FALSE]
JNaN == JNumLit("NaN")

DigitSet == CharsOf(Digits)
HexDigits == "0123456789abcdef"
Sign == Opt(<<In({"+", "-"})>>)
Exponent == Opt(<<In({"e", "E"}), Sign, Plus(In(DigitSet))>>)

\* StrDecimalLiteral that is an integer
decimalIntegerRe == <<Bol, Sign, Plus(In(DigitSet)), Eol>>

\* the other forms of StrDecimalLiteral
decimalLiteralRe ==
    <<Bol, Sign,
      Alt(<< <<Lit("Infinity")>>,
             <<Plus(In(DigitSet)), Opt(<<Lit("."), Star(In(DigitSet))>>), Exponent>>,
             <<Lit("."), Plus(In(DigitSet)), Exponent>> >>),
      Eol>>

\* NonDecimalIntegerLiteral: hexadecimal
hexIntegerRe ==
    <<Bol, Lit("0"), In({"x", "X"}), Plus(In(CharsOf(HexDigits) \cup CharsOf("ABCDEF"))), Eol>>

RECURSIVE ParseDigits(_, _)
ParseDigits(s, digits) ==
    IF s = "" THEN 0
    ELSE Len(digits) * ParseDigits(SubSeq(s, 1, Len(s) - 1), digits)
         + (IndexIn(CharAt(s, Len(s)), digits) - 1)

\* StringToNumber: white space is stripped, the empty string is 0
Number(value) ==
    LET text == trim(value) IN
    IF text = "" THEN JNum(0)
    ELSE IF match(text, decimalIntegerRe).ok
    THEN IF Head(text) = "-" THEN JNum(-ParseDigits(Tail(text), Digits))
         ELSE IF Head(text) = "+" THEN JNum(ParseDigits(Tail(text), Digits))
         ELSE JNum(ParseDigits(text, Digits))
    ELSE IF match(text, hexIntegerRe).ok
    THEN JNum(ParseDigits(toLowerCase(SubSeq(text, 3, Len(text))), HexDigits))
    ELSE IF match(text, decimalLiteralRe).ok THEN JNumLit(text)
    ELSE JNaN

isNaN(value) == Number(value) = JNaN

(***************************************************************************)
(* parseStoryFile                                                          *)
(***************************************************************************)
NoEntries == [set |-> FALSE, v |-> <<>>]

EmptyDocs ==
    [description |-> "", selector |-> None, template |-> None, templateUrl |-> None,
     properties |-> <<>>, componentCode |-> None]

NoComponentDocs == [set |-> FALSE, v |-> EmptyDocs]

\* /component:\s*(\w+)/
componentRe == <<Lit("component:"), Star(WS), Grp(1, <<Plus(W)>>)>>

\* new RegExp(`import\s*\{[^}]*${componentMatch[1]}[^}]*\}\s*from\s*['"]([^'"]+)['"]`)
importOfRe(component) ==
    <<Lit("import"), Star(WS), Lit("{"), Star(NotIn({"}"})), Lit(component),
      Star(NotIn({"}"})), Lit("}"), Star(WS), Lit("from"), Star(WS), In(Quotes),
      Grp(1, <<Plus(NotIn(Quotes))>>), In(Quotes)>>

extensions == <<".ts", ".tsx", ".js", ".jsx", ".vue", ".svelte">>

FullPath(componentFilePath, ext) ==
    IF endsWith(componentFilePath, ext) THEN componentFilePath ELSE componentFilePath \o ext

\* a faulty variant: the last candidate that exists
LastExisting(componentFilePath) ==
    LET found == {i \in 1..Len(extensions) :
                    existsSync(FullPath(componentFilePath, extensions[i]))}
    IN IF found = {} THEN None ELSE Some(FullPath(componentFilePath, extensions[Max(found)]))

\* the candidate at which the loop over the extensions breaks
FirstExisting(componentFilePath) ==
    LET found == {i \in 1..Len(extensions) :
                    existsSync(FullPath(componentFilePath, extensions[i]))}
    IN IF found = {} THEN None ELSE Some(FullPath(componentFilePath, extensions[Min(found)]))

\* storyData.component
StoryComponent(content) ==
    LET componentMatch == match(content, componentRe)
    IN IF componentMatch.ok THEN Some(Group(content, componentMatch, 1)) ELSE None

\* storyData.componentDocs
StoryComponentDocs(filePath, content) ==
    LET component == StoryComponent(content)
        importMatch == match(content, importOfRe(component.v))
        fullPath == FirstExisting(resolve(dirname(filePath), Group(content, importMatch, 1)))
        componentDocs == extractComponentDocs(fullPath.v)
    IN IF component.set /\ importMatch.ok /\ fullPath.set /\ componentDocs.k = "docs"
       THEN [set |-> TRUE, v |-> componentDocs.docs]
       ELSE NoComponentDocs

\* /argTypes:\s*\{([\s\S]*?)\},?\s*(?:\/\/|args:|tags:|$)/
argTypesBlockRe ==
    <<Lit("argTypes:"), Star(WS), Lit("{"), Grp(1, <<LazyStar(AnyChar)>>), Lit("}"),
      Opt(<<Lit(",")>>), Star(WS),
      Alt(<< <<Lit("//")>>, <<Lit("args:")>>, <<Lit("tags:")>>, <<Eol>> >>)>>

\* /(\w+):\s*\{([^{}]*)\}/g
argTypePropRegex ==
    <<Grp(1, <<Plus(W)>>), Lit(":"), Star(WS), Lit("{"), Grp(2, <<Star(NotIn({"{", "}"}))>>),
      Lit("}")>>

\* /control:\s*['"]([^'"]+)['"]/
controlRe ==
    <<Lit("control:"), Star(WS), In(Quotes), Grp(1, <<Plus(NotIn(Quotes))>>), In(Quotes)>>

\* the while loop over propRegex.exec(argTypesBlockMatch[1])
RECURSIVE AddControls(_, _, _)
AddControls(argTypes, block, ms) ==
    IF ms = <<>> THEN argTypes
    ELSE LET body == Group(block, Head(ms), 2)
             controlMatch == match(body, controlRe)
         IN AddControls(IF controlMatch.ok
                        THEN ObjSet(argTypes, Group(block, Head(ms), 1),
                                    Group(body, controlMatch, 1))
                        ELSE argTypes,
                        block, Tail(ms))

\* storyData.argTypes: the control of each property of the argTypes block
StoryArgTypes(content) ==
    LET argTypesBlockMatch == match(content, argTypesBlockRe)
        block == Group(content, argTypesBlockMatch, 1)
    IN IF argTypesBlockMatch.ok
       THEN [set |-> TRUE, v |-> AddControls(<<>>, block,
                                             AllMatches(argTypePropRegex, block, FALSE))]
       ELSE NoEntries

\* storyId.split('--')[1]
StoryNameOf(storyId) ==
    LET parts == split(storyId, "--")
    IN IF Len(parts) >= 2 THEN Some(parts[2]) ELSE None

\* a faulty variant: only the first letter of each word is changed
PascalNameKeepCase(storyName) ==
    LET parts == split(storyName, "-")
    IN join([i \in 1..Len(parts) |->
               toUpperCase(SubSeq(parts[i], 1, 1)) \o SubSeq(parts[i], 2, Len(parts[i]))], "")

\* storyName.split('-').map(p => p.charAt(0).toUpperCase() + p.slice(1).toLowerCase()).join('')
PascalName(storyName) ==
    LET parts == split(storyName, "-")
    IN join([i \in 1..Len(parts) |->
               toUpperCase(SubSeq(parts[i], 1, 1))
               \o toLowerCase(SubSeq(parts[i], 2, Len(parts[i])))], "")

\* whether new RegExp raises a SyntaxError on a pattern that holds this text: it
\* does on a group that is opened and not closed (the story ids of the model hold
\* no other pattern syntax)
RegExpRaises(text) == includes(text, "(") /\ ~includes(text, ")")

\* new RegExp(`export\s+const\s+${pascalName}[^=]*=\s*\{[^}]*args:\s*\{([^}]+)\}`, 's')
storyPattern(pascalName) ==
    <<Lit("export"), Plus(WS), Lit("const"), Plus(WS), Lit(pascalName), Star(NotIn({"="})),
      Lit("="), Star(WS), Lit("{"), Star(NotIn({"}"})), Lit("args:"), Star(WS), Lit("{"),
      Grp(1, <<Plus(NotIn({"}"}))>>), Lit("}")>>

\* /^['"]|['"]$/g
quoteEndsRe == <<Alt(<< <<Bol, In(Quotes)>>, <<In(Quotes), Eol>> >>)>>

\* the text of a value: trimmed, without a trailing comma, without a quote at either end
ValueText(raw) == RemoveAll(quoteEndsRe, RemoveFirst(trailingCommaRe, trim(raw)), FALSE)

\* the chain of value === 'true', value === 'false', !isNaN(value) && value !== ''
Coerce(value) ==
    IF value = "true" THEN JBool(TRUE)
    ELSE IF value = "false" THEN JBool(FALSE)
    ELSE IF ~isNaN(value) /\ value # "" THEN Number(value)
    ELSE JStr(value)

\* the callback of argLines.forEach
CoercedArg(args, line) ==
    LET colon == indexOf(line, ":")
        key == trim(SubSeq(line, 1, colon - 1))
        value == Coerce(ValueText(SubSeq(line, colon + 1, Len(line))))
    IN IF colon > 1 /\ key # "" THEN ObjSet(args, key, value) ELSE args

RECURSIVE CoercedArgs(_, _)
CoercedArgs(args, argLines) ==
    IF argLines = <<>> THEN args
    ELSE CoercedArgs(CoercedArg(args, Head(argLines)), Tail(argLines))

\* whether the per-story lookup is made
LooksUpStory(storyId) ==
    LET storyName == StoryNameOf(storyId)
    IN storyName.set /\ storyName.v # "" /\ storyName.v # "docs"

\* storyData.args
StoryDataArgs(content, storyId) ==
    LET storyMatch == match(content, storyPattern(PascalName(StoryNameOf(storyId).v)))
    IN IF LooksUpStory(storyId) /\ storyMatch.ok
       THEN [set |-> TRUE,
             v |-> CoercedArgs(<<>>, split(Group(content, storyMatch, 1), ","))]
       ELSE NoEntries

RetStory(d) == [k |-> "story", data |-> d]

\* the body of the try block
parseStoryFileBody(filePath, storyId, projectDir) ==
    IF ~existsSync(filePath) THEN RetNull
    ELSE IF ReadRaises(filePath) THEN RetThrow
    ELSE LET content == readFileSync(filePath) IN
         IF LooksUpStory(storyId) /\ RegExpRaises(PascalName(StoryNameOf(storyId).v))
         THEN RetThrow
         ELSE RetStory([id |-> storyId,
                        filePath |-> filePath,
                        component |-> StoryComponent(content),
                        componentDocs |-> StoryComponentDocs(filePath, content),
                        argTypes |-> StoryArgTypes(content),
                        args |-> StoryDataArgs(content, storyId)])

parseStoryFile(filePath, storyId, projectDir) ==
    Catch(parseStoryFileBody(filePath, storyId, projectDir))

\* the realm after extractComponentDocs on the candidate found
SharedAt(g, fullPath) == IF fullPath.set THEN extractComponentDocsShared(g, fullPath.v) ELSE g

\* the candidate that parseStoryFile finds for the component of a story file
ImportedFile(filePath, content, importMatch) ==
    IF importMatch.ok
    THEN FirstExisting(resolve(dirname(filePath), Group(content, importMatch, 1)))
    ELSE None

ImportOf(filePath, content, component) ==
    IF component.set
    THEN ImportedFile(filePath, content, match(content, importOfRe(component.v)))
    ELSE None

ComponentFileOf(filePath, content) == ImportOf(filePath, content, StoryComponent(content))

\* the realm after parseStoryFile: extractComponentDocs runs on the first
\* existing candidate (line 212), before the story pattern is built
parseStoryFileShared(g, filePath, storyId, projectDir) ==
    IF ~existsSync(filePath) \/ ReadRaises(filePath) THEN g
    ELSE SharedAt(g, ComponentFileOf(filePath, readFileSync(filePath)))

(***************************************************************************)
(* utils.js: package.json, detectStorybookVersion, detectFramework         *)
(***************************************************************************)
\* path.join of an absolute directory and a relative path
pathJoin(dir, rel) == "/" \o join(NormalizeSegments(split(dir \o "/" \o rel, "/"), <<>>), "/")

\* JSON text of the model: one object on one line, members that are strings or
\* flat objects of strings.  JSON.parse raises a SyntaxError on any other text.
JSONParseRaises(text) ==
    LET body == trim(text)
    IN \/ ~(startsWith(body, "{") /\ endsWith(body, "}"))
       \/ Cardinality(Occurrences(body, "{")) # Cardinality(Occurrences(body, "}"))
       \/ Cardinality(Occurrences(body, "\"")) % 2 # 0

\* "name": { ... } of a JSON text
memberObjectRe(name) ==
    <<Lit("\"" \o name \o "\""), Star(WS), Lit(":"), Star(WS), Lit("{"),
      Grp(1, <<Star(NotIn({"}"}))>>), Lit("}")>>

\* "key": "value"
memberStringRe ==
    <<Lit("\""), Grp(1, <<Plus(NotIn({"\""}))>>), Lit("\""), Star(WS), Lit(":"), Star(WS),
      Lit("\""), Grp(2, <<Star(NotIn({"\""}))>>), Lit("\"")>>

RECURSIVE AddMembers(_, _, _)
AddMembers(obj, block, ms) ==
    IF ms = <<>> THEN obj
    ELSE AddMembers(ObjSet(obj, Group(block, Head(ms), 1), Group(block, Head(ms), 2)),
                    block, Tail(ms))

\* packageJson.dependencies, packageJson.devDependencies (no entries when absent)
SectionOf(text, name) ==
    LET m == match(text, memberObjectRe(name))
        block == Group(text, m, 1)
    IN IF m.ok THEN AddMembers(<<>>, block, AllMatches(memberStringRe, block, FALSE))
       ELSE <<>>

RECURSIVE Spread(_, _)
Spread(obj, entries) ==
    IF entries = <<>> THEN obj
    ELSE Spread(ObjSet(obj, Head(entries).key, Head(entries).val), Tail(entries))

\* { ...packageJson.dependencies, ...packageJson.devDependencies }
DepsOf(text) == Spread(SectionOf(text, "dependencies"), SectionOf(text, "devDependencies"))

\* deps[name] as a truthy value: declared with a non-empty range
Declared(deps, name) == HasKey(deps, name) /\ Get(deps, name) # ""

\* range.match(/(\d+)/)
firstIntegerRe == <<Grp(1, <<Plus(In(DigitSet))>>)>>

HasInteger(range) == match(range, firstIntegerRe).ok

\* parseInt(match[1], 10)
FirstInteger(range) == ParseDigits(Group(range, match(range, firstIntegerRe), 1), Digits)

frameworkPackages ==
    <<"@storybook/angular", "@storybook/react", "@storybook/vue3", "@storybook/svelte",
      "@storybook/web-components">>

RetNumber(n) == [k |-> "number", n |-> n]

\* a faulty variant: only the first declared framework package is looked at
FrameworkVersionFirstOnly(deps) ==
    LET declared == {i \in 1..Len(frameworkPackages) : Declared(deps, frameworkPackages[i])}
    IN IF declared # {} /\ HasInteger(Get(deps, frameworkPackages[Min(declared)]))
       THEN RetNumber(FirstInteger(Get(deps, frameworkPackages[Min(declared)])))
       ELSE RetNull

\* the loop over frameworkPackages: the first declared package whose range has an integer
FrameworkVersion(deps) ==
    LET hits == {i \in 1..Len(frameworkPackages) :
                   Declared(deps, frameworkPackages[i])
                   /\ HasInteger(Get(deps, frameworkPackages[i]))}
    IN IF hits = {} THEN RetNull
       ELSE RetNumber(FirstInteger(Get(deps, frameworkPackages[Min(hits)])))

\* deps['storybook'] || deps['@storybook/core']
StorybookRange(deps) ==
    IF Declared(deps, "storybook") THEN Some(Get(deps, "storybook"))
    ELSE IF Declared(deps, "@storybook/core") THEN Some(Get(deps, "@storybook/core"))
    ELSE None

\* the body of the try block
detectStorybookVersionBody(projectDir) ==
    LET packageJsonPath == pathJoin(projectDir, "package.json") IN
    IF ~existsSync(packageJsonPath) THEN RetNull
    ELSE IF ReadRaises(packageJsonPath) \/ JSONParseRaises(readFileSync(packageJsonPath))
    THEN RetThrow
    ELSE LET deps == DepsOf(readFileSync(packageJsonPath))
             storybookVersion == StorybookRange(deps)
         IN IF storybookVersion.set /\ HasInteger(storybookVersion.v)
            THEN RetNumber(FirstInteger(storybookVersion.v))
            ELSE FrameworkVersion(deps)

detectStorybookVersion(projectDir) == Catch(detectStorybookVersionBody(projectDir))

\* detectFramework: 'unknown' for a missing or unreadable package.json
detectFramework(projectDir) ==
    LET packageJsonPath == pathJoin(projectDir, "package.json") IN
    IF ~existsSync(packageJsonPath) THEN "unknown"
    ELSE IF ReadRaises(packageJsonPath) \/ JSONParseRaises(readFileSync(packageJsonPath))
    THEN "unknown"
    ELSE LET deps == DepsOf(readFileSync(packageJsonPath)) IN
         IF Declared(deps, "@storybook/angular") \/ Declared(deps, "@angular/core")
         THEN "angular"
         ELSE IF Declared(deps, "@storybook/react") \/ Declared(deps, "react") THEN "react"
         ELSE IF Declared(deps, "@storybook/vue3") \/ Declared(deps, "vue") THEN "vue"
         ELSE IF Declared(deps, "@storybook/svelte") \/ Declared(deps, "svelte") THEN "svelte"
         ELSE IF Declared(deps, "@storybook/web-components") THEN "web-components"
         ELSE "unknown"

(***************************************************************************)
(* server.js: createApp, the handlers of the routes                        *)
(***************************************************************************)
NoTags == [set |-> FALSE, v |-> <<>>]

\* an object that has none of the fields the handlers read
BareEntry ==
    [id |-> None, name |-> None, title |-> None, kind |-> None, importPath |-> None,
     tags |-> NoTags, type |-> None]

\* a function of the realm read as an entry: name is the name of the function
FunctionEntry(name) == [BareEntry EXCEPT !.name = Some(name)]

NoEntry == [set |-> FALSE, v |-> BareEntry]

\* a faulty variant: the first operand alone
OrElseFirst(a, b) == a

\* a || b of two strings that may be undefined
OrElse(a, b) == IF a.set /\ a.v # "" THEN a ELSE b

\* data.entries?.[storyId]: the own entry, else what the prototype chain of the
\* parsed object gives: a member of Object.prototype, or a field that was
\* assigned on Object.prototype
EntryLookup(g, data, storyId) ==
    IF ~data.entries.set THEN NoEntry
    ELSE IF HasKey(data.entries.v, storyId) THEN Some(Get(data.entries.v, storyId))
    ELSE IF storyId = "__proto__" THEN Some(BareEntry)
    ELSE IF storyId = "constructor" THEN Some(FunctionEntry("Object"))
    ELSE IF storyId \in InheritedNames THEN Some(FunctionEntry(storyId))
    ELSE IF \E w \in g : w.object = "Object.prototype" /\ w.field = storyId /\ w.value # ""
    THEN Some(BareEntry)
    ELSE NoEntry

\* Object.values(data.entries || {})
EntryValues(data) ==
    IF data.entries.set THEN [i \in 1..Len(data.entries.v) |-> data.entries.v[i].val]
    ELSE <<>>

Res(status, body) == [status |-> status, body |-> body]

Failure(status, message) == Res(status, [success |-> FALSE, error |-> message])

\* error.message of the TypeError of data.entries on null
NullDataMessage == "Cannot read properties of null (reading 'entries')"

\* error.message of readFileSync on a directory
IsDirMessage == "EISDIR: illegal operation on a directory, read"

NotFoundMessage(storyId) == "Story \"" \o storyId \o "\" not found"

\* importPath.replace(/^\.\//, '')
CleanPath(importPath) ==
    IF startsWith(importPath, "./") THEN SubSeq(importPath, 3, Len(importPath))
    ELSE importPath

\* the fields of an entry that every story of a response carries
StoryOf(entry) ==
    [id |-> entry.id, name |-> entry.name, title |-> entry.title,
     kind |-> OrElse(entry.kind, entry.title), importPath |-> entry.importPath,
     tags |-> IF entry.tags.set THEN entry.tags.v ELSE <<>>, type |-> entry.type]

\* GET /api/stories, once the index is parsed
ListStories(data) ==
    IF data.null THEN Failure(500, NullDataMessage)
    ELSE LET stories == [i \in 1..Len(EntryValues(data)) |-> StoryOf(EntryValues(data)[i])]
         IN Res(200, [success |-> TRUE, count |-> Len(stories), stories |-> stories])

\* what the handler of a story adds from the story file
NoDetails ==
    [parsed |-> FALSE, component |-> None, args |-> <<>>, argTypes |-> <<>>,
     docs |-> NoComponentDocs]

\* lines 120-127: what is taken from the result of parseStoryFile
DetailsOf(parsed) ==
    IF parsed.k # "story" THEN NoDetails
    ELSE [parsed |-> TRUE,
          component |-> parsed.data.component,
          args |-> parsed.data.args.v,
          argTypes |-> parsed.data.argTypes.v,
          docs |-> parsed.data.componentDocs]

StoryDetails(entry, storyId, projectDir) ==
    IF ~(entry.importPath.set /\ entry.importPath.v # "") THEN NoDetails
    ELSE DetailsOf(parseStoryFile(pathJoin(projectDir, CleanPath(entry.importPath.v)),
                                  storyId, projectDir))

\* GET /api/stories/:storyId, once the index is parsed
GetStory(g, data, storyId, projectDir) ==
    IF data.null THEN Failure(500, NullDataMessage)
    ELSE LET entry == EntryLookup(g, data, storyId) IN
         IF ~entry.set THEN Failure(404, NotFoundMessage(storyId))
         ELSE Res(200, [success |-> TRUE,
                        story |-> [entry |-> StoryOf(entry.v),
                                   details |-> StoryDetails(entry.v, storyId, projectDir)]])

\* the realm after the handler of GET /api/stories/:storyId
GetStoryShared(g, data, storyId, projectDir) ==
    IF data.null THEN g
    ELSE LET entry == EntryLookup(g, data, storyId) IN
         IF entry.set /\ entry.v.importPath.set /\ entry.v.importPath.v # ""
         THEN parseStoryFileShared(g, pathJoin(projectDir, CleanPath(entry.v.importPath.v)),
                                   storyId, projectDir)
         ELSE g

docsExtensions == <<"", ".ts", ".tsx", ".js", ".jsx", ".vue", ".svelte">>

\* the candidate at which the loop of lines 179-192 breaks
DocsFirstExisting(componentFilePath) ==
    LET found == {i \in 1..Len(docsExtensions) :
                    existsSync(componentFilePath \o docsExtensions[i])}
    IN IF found = {} THEN None ELSE Some(componentFilePath \o docsExtensions[Min(found)])

\* the component file that the handler of the docs reads for a story file
DocsImportedFile(storyFilePath, content, importMatch) ==
    IF importMatch.ok
    THEN DocsFirstExisting(resolve(dirname(storyFilePath), Group(content, importMatch, 1)))
    ELSE None

DocsImportOf(storyFilePath, content, component) ==
    IF component.set
    THEN DocsImportedFile(storyFilePath, content, match(content, importOfRe(component.v)))
    ELSE None

DocsComponentFile(storyFilePath) ==
    DocsImportOf(storyFilePath, readFileSync(storyFilePath),
                 StoryComponent(readFileSync(storyFilePath)))

\* a faulty variant: the args of a story with the quotes taken off
UsageArgsUnquoted(args) ==
    [i \in 1..Len(args) |->
        [key |-> args[i].key,
         val |-> JStr(IF Len(args[i].val) >= 2 /\ CharAt(args[i].val, 1) \in {"'", "\""}
                      THEN SubSeq(args[i].val, 2, Len(args[i].val) - 1)
                      ELSE args[i].val)]]

\* story.args as they are handed to generateUsageExample: the strings of
\* extractStoryExamples
UsageArgs(args) == [i \in 1..Len(args) |-> [key |-> args[i].key, val |-> JStr(args[i].val)]]

\* docs.usageExamples: the forEach of lines 205-207
UsageExamples(selector, stories, framework) ==
    [i \in 1..Len(stories) |->
        [key |-> stories[i].key,
         val |-> generateUsageExample(JStr(selector), Obj(UsageArgs(stories[i].val.args)),
                                      JStr(stories[i].key), JStr(framework))]]

NoExamples == [stories |-> <<>>, imports |-> <<>>, meta |-> None]

\* the fields of docs that come from the files
NoFileDocs ==
    [component |-> None, found |-> FALSE, selector |-> None, template |-> None,
     componentCode |-> None, properties |-> <<>>, componentDescription |-> "",
     examples |-> FALSE, imports |-> <<>>, metaCode |-> None, storyExamples |-> <<>>,
     usage |-> FALSE, usageExamples |-> <<>>, mdx |-> FALSE, mdxContent |-> ""]

\* lines 182-208: what is taken from the results of extractComponentDocs and
\* extractStoryExamples
FileDocsOf(component, componentDocs, storyExamples, framework) ==
    LET found == componentDocs.k = "docs"
        selector == IF found THEN componentDocs.docs.selector ELSE None
        examples == storyExamples.k = "examples"
        stories == IF examples THEN storyExamples.examples.stories ELSE <<>>
        usage == examples /\ selector.set /\ selector.v # ""
    IN [NoFileDocs EXCEPT
          !.component = component,
          !.found = found,
          !.selector = selector,
          !.template = IF found THEN componentDocs.docs.template ELSE None,
          !.componentCode = IF found THEN componentDocs.docs.componentCode ELSE None,
          !.properties = IF found THEN componentDocs.docs.properties ELSE <<>>,
          !.componentDescription = IF found THEN componentDocs.docs.description ELSE "",
          !.examples = examples,
          !.imports = IF examples THEN storyExamples.examples.imports ELSE <<>>,
          !.metaCode = IF examples THEN storyExamples.examples.meta ELSE None,
          !.storyExamples = stories,
          !.usage = usage,
          !.usageExamples = IF usage THEN UsageExamples(selector.v, stories, framework)
                            ELSE <<>>]

\* extractComponentDocs on the candidate found, when one was found
ComponentDocsAt(fullPath) == IF fullPath.set THEN extractComponentDocs(fullPath.v) ELSE RetNull

\* lines 164-209: a story file that exists and is read
StoryFileDocs(storyFilePath, framework) ==
    FileDocsOf(StoryComponent(readFileSync(storyFilePath)),
               ComponentDocsAt(DocsComponentFile(storyFilePath)),
               extractStoryExamples(storyFilePath), framework)

\* GET /api/docs/:storyId, once the index is parsed
GetDocs(g, data, storyId, projectDir, framework) ==
    IF data.null THEN Failure(500, NullDataMessage)
    ELSE LET entry == EntryLookup(g, data, storyId) IN
         IF ~entry.set THEN Failure(404, NotFoundMessage(storyId))
         ELSE LET importPath == entry.v.importPath
                  path == pathJoin(projectDir, CleanPath(importPath.v))
                  head == [storyId |-> storyId, title |-> entry.v.title,
                           name |-> entry.v.name, type |-> entry.v.type,
                           framework |-> framework]
                  Docs(files) == Res(200, [success |-> TRUE,
                                           docs |-> [head |-> head, files |-> files]])
              IN IF ~(importPath.set /\ importPath.v # "") THEN Docs(NoFileDocs)
                 ELSE IF ~existsSync(path) THEN Docs(NoFileDocs)
                 ELSE IF ReadRaises(path) THEN Failure(500, IsDirMessage)
                 ELSE IF endsWith(importPath.v, ".mdx")
                 THEN Docs([NoFileDocs EXCEPT !.mdx = TRUE, !.mdxContent = readFileSync(path)])
                 ELSE Docs(StoryFileDocs(path, framework))

\* the realm after the handler of GET /api/docs/:storyId
GetDocsShared(g, data, storyId, projectDir) ==
    IF data.null THEN g
    ELSE LET entry == EntryLookup(g, data, storyId)
             importPath == entry.v.importPath
             path == pathJoin(projectDir, CleanPath(importPath.v))
         IN IF /\ entry.set /\ importPath.set /\ importPath.v # ""
               /\ ~endsWith(importPath.v, ".mdx")
               /\ existsSync(path) /\ ~ReadRaises(path)
            THEN SharedAt(g, DocsComponentFile(path))
            ELSE g

\* GET /api/stories/kind/:kind, once the index is parsed
ListKind(data, kind) ==
    IF data.null THEN Failure(500, NullDataMessage)
    ELSE LET all == EntryValues(data)
             hits == SelectSeq(all, LAMBDA entry : entry.kind = Some(kind)
                                                     \/ entry.title = Some(kind))
             stories == [i \in 1..Len(hits) |->
                           [id |-> hits[i].id, name |-> hits[i].name, title |-> hits[i].title,
                            kind |-> OrElse(hits[i].kind, hits[i].title),
                            type |-> hits[i].type]]
         IN Res(200, [success |-> TRUE, count |-> Len(stories), kind |-> kind,
                      stories |-> stories])

(***************************************************************************)
(* server.js: startServer, the routes of the app and the shutdown          *)
(***************************************************************************)
\* the routes of createApp in the order of their registration; a segment that
\* starts with : is a parameter
ApiRoutes ==
    <<[handler |-> "api", segments |-> <<"api">>],
      [handler |-> "stories", segments |-> <<"api", "stories">>],
      [handler |-> "story", segments |-> <<"api", "stories", ":storyId">>],
      [handler |-> "docs", segments |-> <<"api", "docs", ":storyId">>],
      [handler |-> "kind", segments |-> <<"api", "stories", "kind", ":kind">>]>>

\* the segments of a request path; routing is not strict: one trailing slash is
\* dropped
PathSegments(path) ==
    LET parts == Tail(split(path, "/"))
    IN IF Len(parts) > 1 /\ parts[Len(parts)] = "" THEN SubSeq(parts, 1, Len(parts) - 1)
       ELSE parts

\* the match of a path against a route: equal length, a parameter takes any
\* segment that is not empty, the other segments are compared without case
RouteMatches(segments, parts) ==
    /\ Len(parts) = Len(segments)
    /\ \A i \in 1..Len(segments) :
          IF CharAt(segments[i], 1) = ":" THEN parts[i] # ""
          ELSE toLowerCase(parts[i]) = segments[i]

\* app.get(...): the route handles GET and, having no handler of its own, HEAD
RouteMethods == {"GET", "HEAD"}

\* a faulty variant: the proxy is mounted before the routes
RouteOfProxyFirst(method, path, proxy) ==
    IF proxy THEN "storybook" ELSE "express"

\* who answers a request: the first route that matches, else the proxy
\* middleware when it is mounted, else the final handler of express (404)
RouteOf(method, path, proxy) ==
    LET hits == {i \in 1..Len(ApiRoutes) :
                   RouteMatches(ApiRoutes[i].segments, PathSegments(path))}
    IN IF method \in RouteMethods /\ hits # {} THEN ApiRoutes[Min(hits)].handler
       ELSE IF proxy THEN "storybook"
       ELSE "express"

\* a faulty variant: the server is closed before the child is killed
ShutdownCallsCloseFirst(child) ==
    <<"close">> \o (IF child # "none" THEN <<"kill">> ELSE <<>>)

\* the calls of shutdown, lines 392-397: storybookProcess.kill() when a process
\* was started, then server.close(...)
ShutdownCalls(child) ==
    (IF child # "none" THEN <<"kill">> ELSE <<>>) \o <<"close">>

(***************************************************************************)
(* The file system and the calls of the public functions                   *)
(***************************************************************************)
NoCall == [fn |-> "none"]

\* no server process has been started
NoServer == [state |-> "none"]
InitCommon ==
    /\ call = NoCall /\ ret = RetNull /\ log = <<>>
    /\ globals = {} /\ requests = <<>> /\ server = NoServer

\* a call is made when no call is in progress; its result is looked at and dropped
Idle == call.fn = "none"

Return ==
    /\ ~Idle
    /\ call' = NoCall
    /\ ret' = RetNull
    /\ UNCHANGED <<fs, log, globals, requests, server>>

(***************************************************************************)
(* SpecUsage: calls of generateUsageExample                                *)
(***************************************************************************)
MaxArgs == 2

ArgKeys == {"primary", "label", "size"}

ArgValues ==
    {JBool(TRUE), JBool(FALSE), JStr("true"), JStr("false"), JStr("Button"), JStr(""),
     JStr("'md'"), JStr("\"lg\""), JNum(42), JUndefined, JSymbol}

ArgEntries == [key : ArgKeys, val : ArgValues]

ArgObjects ==
    {NoObj} \cup
    {Obj(e) : e \in {q \in UNION {[1..n -> ArgEntries] : n \in 0..MaxArgs} :
                        \A i, j \in 1..Len(q) : i # j => q[i].key # q[j].key}}

Selectors == {JUndefined, JStr(""), JStr("app-button")}

StoryNames == {JStr("Primary")}

Frameworks == {JUndefined, JStr("angular"), JStr("react"), JStr("unknown")}

InitUsage == fs = <<>> /\ InitCommon

CallGenerateUsageExample ==
    /\ Idle
    /\ \E selector \in Selectors, args \in ArgObjects,
          storyName \in StoryNames, framework \in Frameworks :
        /\ call' = [fn |-> "generateUsageExample", selector |-> selector, args |-> args,
                    storyName |-> storyName, framework |-> framework]
        /\ ret' = generateUsageExample(selector, args, storyName, framework)
        /\ UNCHANGED <<fs, log, globals, requests, server>>

NextUsage == CallGenerateUsageExample \/ Return

SpecUsage == InitUsage /\ [][NextUsage]_vars

UsageCall == call.fn = "generateUsageExample"

\* the framework tag a call renders with
UsedFramework == IF call.framework.t = "undefined" THEN "angular" ELSE call.framework.s

UsageEntries == IF call.args.defined THEN call.args.entries ELSE <<>>

\* the rule list of C1, first rule that applies
C1_Rule(key, value, framework) ==
    CASE value = JBool(TRUE) \/ value = JStr("true") ->
           IF framework = "angular" THEN "[" \o key \o "]=\"true\"" ELSE key \o "={true}"
      [] value = JBool(FALSE) \/ value = JStr("false") ->
           IF framework = "angular" THEN "[" \o key \o "]=\"false\"" ELSE key \o "={false}"
      [] value.t = "string" /\ value.s # "" /\ Head(value.s) \in Quotes
         /\ value.s \notin {"true", "false"} ->
           key \o "=" \o value.s
      [] value.t = "string" /\ ~(value.s # "" /\ Head(value.s) \in Quotes)
         /\ value.s \notin {"true", "false"} ->
           key \o "=\"" \o value.s \o "\""
      [] OTHER ->
           IF framework = "angular" THEN "[" \o key \o "]=\"" \o ToStringJS(value) \o "\""
           ELSE key \o "={" \o ToStringJS(value) \o "}"

\* C1: every argument of a call that returned a string is rendered, on a line of
\* its own, by the first applicable rule of the list (true, false, quoted string,
\* other string, non-string), the bracket form for the tag 'angular' and the
\* brace form for every other tag, known or not.
C1_ArgumentRendering ==
    (UsageCall /\ ret.k = "string") =>
        \A i \in 1..Len(UsageEntries) :
            includes(ret.s, "\n    "
                     \o C1_Rule(UsageEntries[i].key, UsageEntries[i].val, UsedFramework)
                     \o (IF i = Len(UsageEntries) THEN ">\n</" ELSE "\n    "))

\* a call with an unknown framework tag whose arguments are the string "true"
\* and a number: the brace form is used
C1_Witness ==
    /\ UsageCall /\ ret.k = "string"
    /\ call.framework = JStr("unknown")
    /\ Len(UsageEntries) = 2
    /\ UsageEntries[1].val = JStr("true")
    /\ UsageEntries[2].val = JNum(42)
    /\ includes(ret.s, "={true}") /\ includes(ret.s, "={42}")

MaxFragments == 2

ComponentFile == "/p/src/button.component.ts"
TemplateFile == "/p/src/button.html"
MissingFile == "/p/src/missing.ts"

\* pieces of component source; a component file is a sequence of distinct pieces
DocFragments ==
    {"selector: 'app-button',\n",
     "templateUrl: './button.html',\n",
     "template: ~\n  <b>{{ label }}</b>\n~,\n",
     "/** Button label @required */\n@Input() label: string;\n",
     "/**\n * Emitted on click\n */\n@Output() onClick = new EventEmitter();\n",
     "/** Internal id */\nid: string;\n",
     "/** @requ@requiredired */\n@Input() size = 'md';\n"}

RECURSIVE Concat(_)
Concat(parts) == IF parts = <<>> THEN "" ELSE Head(parts) \o Concat(Tail(parts))

SequencesOf(S, n) ==
    {q \in UNION {[1..k -> S] : k \in 0..n} : \A i, j \in 1..Len(q) : i # j => q[i] # q[j]}

ComponentSources == {Concat(q) : q \in SequencesOf(DocFragments, MaxFragments)}

TemplateNodes == {NoNode, File("\n<button>{{ label }}</button>\n"), Dir}

InitDocs ==
    /\ \E src \in ComponentSources, tpl \in TemplateNodes :
          fs = (ComponentFile :> File(src)) @@ (TemplateFile :> tpl)
    /\ InitCommon

CallExtractComponentDocs ==
    /\ Idle
    /\ \E path \in {ComponentFile, MissingFile} :
          /\ call' = [fn |-> "extractComponentDocs", path |-> path]
          /\ ret' = extractComponentDocs(path)
          /\ globals' = extractComponentDocsShared(globals, path)
          /\ UNCHANGED <<fs, log, requests, server>>

NextDocs == CallExtractComponentDocs \/ Return

SpecDocs == InitDocs /\ [][NextDocs]_vars

\* a call of extractComponentDocs on a file that returned a record
DocsCall == call.fn = "extractComponentDocs" /\ ret.k = "docs"

DocsContent == NodeAt(call.path).data

\* the matches of the decorated-property pattern in the file read
DecoratorMatches == AllMatches(propDocRegex, DocsContent, FALSE)

\* the last decorated-property match that names k (0 when none does)
LastDecorated(k) ==
    LET hits == {i \in 1..Len(DecoratorMatches) : Group(DocsContent, DecoratorMatches[i], 3) = k}
    IN IF hits = {} THEN 0 ELSE CHOOSE i \in hits : \A j \in hits : j <= i

\* The statement of C3: a property recorded from a comment, @Input()/@Output()
\* and an identifier has required true exactly when the comment text holds the
\* token @required, a description without that token, and the lower-cased
\* decorator name as its type.
C3_Claim ==
    DocsCall =>
        \A i \in 1..Len(ret.docs.properties) :
            LET k == ret.docs.properties[i].key
                p == ret.docs.properties[i].val
                m == DecoratorMatches[LastDecorated(k)]
            IN LastDecorated(k) # 0 =>
                 /\ p.required = includes(Group(DocsContent, m, 1), "@required")
                 /\ ~includes(p.description, "@required")
                 /\ p.type = Some(toLowerCase(Group(DocsContent, m, 2)))

\* the external template's resolved path and the inline template of the file read
UrlOfCall == match(DocsContent, templateUrlRe)
UrlPathOfCall == resolve(dirname(call.path), Group(DocsContent, UrlOfCall, 1))
InlineOfCall == match(DocsContent, templateRe)

\* The statement of C4: with a templateUrl, template is the trimmed contents of
\* the named file when it exists and absent when it does not, templateUrl being
\* recorded; also for a file that has an inline template as well.
C4_Claim ==
    (DocsCall /\ UrlOfCall.ok) =>
        /\ ret.docs.templateUrl = Some(Group(DocsContent, UrlOfCall, 1))
        /\ existsSync(UrlPathOfCall) =>
              ret.docs.template = Some(trim(readFileSync(UrlPathOfCall)))
        /\ ~existsSync(UrlPathOfCall) => ret.docs.template = None

\* C4 (amended): with a templateUrl, template is the trimmed contents of the named
\* file when it exists as a file; when nothing exists at that path, template is
\* the trimmed inline template if the file has one and absent otherwise, and
\* templateUrl is recorded; when the path is a directory the call returns null.
C4_TemplateUrl ==
    (call.fn = "extractComponentDocs" /\ call.path = ComponentFile /\ UrlOfCall.ok) =>
        /\ NodeAt(UrlPathOfCall).kind = "dir" => ret = RetNull
        /\ NodeAt(UrlPathOfCall).kind = "file" =>
              /\ ret.k = "docs"
              /\ ret.docs.templateUrl = Some(Group(DocsContent, UrlOfCall, 1))
              /\ ret.docs.template = Some(trim(readFileSync(UrlPathOfCall)))
        /\ NodeAt(UrlPathOfCall).kind = "none" =>
              /\ ret.k = "docs"
              /\ ret.docs.templateUrl = Some(Group(DocsContent, UrlOfCall, 1))
              /\ ret.docs.template =
                    IF InlineOfCall.ok THEN Some(trim(Group(DocsContent, InlineOfCall, 1)))
                    ELSE None

\* a file with both an inline template and a templateUrl whose file exists: the
\* external contents, trimmed, replace the inline template
C4_Witness ==
    /\ DocsCall /\ UrlOfCall.ok /\ InlineOfCall.ok
    /\ UrlPathOfCall = TemplateFile
    /\ fs[TemplateFile].kind = "file"
    /\ ret.docs.template = Some("<button>{{ label }}</button>")
    /\ ret.docs.templateUrl = Some("./button.html")

(***************************************************************************)
(* SpecFields: calls of extractComponentDocs on files of properties and    *)
(* field declarations                                                      *)
(***************************************************************************)
MaxFields == 2

\* decorated properties, a property of a Props interface, and field
\* declarations with and without a default, one of them named like a member
\* every object inherits
FieldFragments ==
    {"/** Button label @required */\n@Input() label: string;\n",
     "/** Count */\n@Input() count: number = 0;\ntoString: () => string;\n",
     "/** Internal id */\nid: string;\n",
     "/** Size */\n@Input() size = 'md';\n",
     "label?: string = 'x';\n",
     "interface ButtonProps {\n/** Tone */\ntone?: string;\n}\n"}

FieldSources == {Concat(q) : q \in SequencesOf(FieldFragments, MaxFields)}

InitFields ==
    /\ \E src \in FieldSources : fs = (ComponentFile :> File(src))
    /\ InitCommon

NextFields == CallExtractComponentDocs \/ Return

SpecFields == InitFields /\ [][NextFields]_vars

\* docs.properties when the scan of lines 86-99 starts, and the declarations the
\* scan finds in the file read
PropertiesBeforeScan == InterfaceProperties(DecoratedProperties(DocsContent), DocsContent)

FieldMatches == AllMatches(propTypeRegex, DocsContent, FALSE)

\* C18: the scan of the field declarations only backfills: the names in
\* docs.properties after it are the names before it, in the same order; for
\* every name description, type and required are as before; tsType differs
\* only when a declaration names the property, and defaultValue only when such
\* a declaration has a default.
C18_OnlyBackfills ==
    DocsCall =>
        LET before == PropertiesBeforeScan
            after == ret.docs.properties
        IN /\ Keys(after) = Keys(before)
           /\ \A i \in 1..Len(after) :
                 /\ after[i].val.description = before[i].val.description
                 /\ after[i].val.type = before[i].val.type
                 /\ after[i].val.required = before[i].val.required
                 /\ after[i].val.tsType # before[i].val.tsType
                       => \E j \in 1..Len(FieldMatches) :
                             Group(DocsContent, FieldMatches[j], 1) = after[i].key
                 /\ after[i].val.defaultValue # before[i].val.defaultValue
                       => \E j \in 1..Len(FieldMatches) :
                             /\ Group(DocsContent, FieldMatches[j], 1) = after[i].key
                             /\ Group(DocsContent, FieldMatches[j], 3) # ""

\* `count: number = 0;` and `label: string;` backfilled two decorated
\* properties, the declaration of toString created none
C18_Witness ==
    /\ DocsCall
    /\ Keys(ret.docs.properties) = <<"count", "label">>
    /\ Get(ret.docs.properties, "count")
          = [description |-> "Count", type |-> Some("input"), required |-> FALSE,
             tsType |-> Some("number"), defaultValue |-> Some("0")]
    /\ Get(ret.docs.properties, "label").tsType = Some("string")
    /\ Get(ret.docs.properties, "label").defaultValue = None
    /\ Get(PropertiesBeforeScan, "count").tsType = None
    /\ \E j \in 1..Len(FieldMatches) : Group(DocsContent, FieldMatches[j], 1) = "toString"

(***************************************************************************)
(* SpecStories: calls of extractStoryExamples on story files               *)
(***************************************************************************)
MaxStories == 2

StoryFile == "/p/src/button.stories.ts"

StoryHeads ==
    {"",
     "import { ButtonComponent } from './button.component';\nconst meta = { component: ButtonComponent };\nexport default meta;\n"}

\* story declarations: plain, with a type annotation, with other spacing, with a
\* body that holds the text "};"
StoryDecls ==
    {"export const Primary = { args: { primary: true, label: 'Button' } };\n",
     "export const Primary: Story = {\n  args: { primary: false },\n};\n",
     "export const Secondary: Story = { args: { label: \"Go\", size: 'lg' } };\n",
     "export  const Large={ render: () => { const a = {};\n return a; } };\n",
     "export const Link = { args: { label: 'a, b', href: 'http://x', } };\n",
     "export const Plain = {};\n"}

StorySources ==
    {h \o Concat(q) : h \in StoryHeads,
                      q \in UNION {[1..n -> StoryDecls] : n \in 0..MaxStories}}

InitStories ==
    /\ \E src \in StorySources : fs = (StoryFile :> File(src))
    /\ InitCommon

CallExtractStoryExamples ==
    /\ Idle
    /\ \E path \in {StoryFile, MissingFile} :
          /\ call' = [fn |-> "extractStoryExamples", path |-> path]
          /\ ret' = extractStoryExamples(path)
          /\ UNCHANGED <<fs, log, globals, requests, server>>

NextStories == CallExtractStoryExamples \/ Return

SpecStories == InitStories /\ [][NextStories]_vars

ExamplesCall == call.fn = "extractStoryExamples" /\ ret.k = "examples"

ExamplesContent == NodeAt(call.path).data

\* the story declarations of the file read, and the last one that names k
StoryMatches == AllMatches(storyRegex, ExamplesContent, FALSE)

LastStory(k) ==
    Max({i \in 1..Len(StoryMatches) : Group(ExamplesContent, StoryMatches[i], 1) = k})

\* C5: the code of every recorded story is `export const <Name> = {<body>};` made
\* of the story name and the captured body alone, whatever the form of the
\* declaration (type annotation, spacing), and name and body are recovered from
\* it: the story pattern matches the whole of code and captures them again.
C5_CodeRoundTrip ==
    ExamplesCall =>
        \A i \in 1..Len(ret.examples.stories) :
            LET name == ret.examples.stories[i].key
                code == ret.examples.stories[i].val.code
                body == Group(ExamplesContent, StoryMatches[LastStory(name)], 2)
                again == match(code, storyRegex)
            IN /\ code = "export const " \o name \o " = {" \o body \o "};"
               /\ again.ok /\ again.start = 1 /\ again.end = Len(code) + 1
               /\ Group(code, again, 1) = name
               /\ Group(code, again, 2) = body

\* a declaration with a type annotation was read: its code is not the source
\* text of the declaration, and a later declaration of the same name is absent
C5_Witness ==
    /\ ExamplesCall
    /\ Len(ret.examples.stories) = 2
    /\ ret.examples.stories[1].key = "Primary"
    /\ ret.examples.stories[1].val.code = "export const Primary = {\n  args: { primary: false },\n};"
    /\ includes(ExamplesContent, "export const Primary: Story = {")
    /\ ret.examples.stories[2].key = "Large"

\* the text between the braces of args: in the body of the story that ret
\* records under name, "" when the body has no args
ArgsTextOf(name) ==
    LET body == Group(ExamplesContent, StoryMatches[LastStory(name)], 2)
        argsMatch == match(body, argsRe)
    IN IF argsMatch.ok THEN Group(body, argsMatch, 1) ELSE ""

\* the fragments of a text between its commas, by the positions of the commas
CommaCuts(text) == {0, Len(text) + 1} \cup {i \in 1..Len(text) : CharAt(text, i) = ","}

FragmentFrom(text, c) ==
    SubSeq(text, c + 1, Min({d \in CommaCuts(text) : d > c}) - 1)

\* key and value of a fragment: the text before and after its first colon
FragmentKey(frag) == trim(SubSeq(frag, 1, indexOf(frag, ":") - 1))
FragmentValue(frag) == trim(SubSeq(frag, indexOf(frag, ":") + 1, Len(frag)))
FragmentCounts(frag) == indexOf(frag, ":") > 1 /\ FragmentKey(frag) # ""

\* C12: the args that extractStoryExamples records for a story are the raw source
\* text: the text between the braces of args is cut at every comma, every
\* fragment with a key before its first colon gives the entry key -> the
\* trimmed text after that colon (the last fragment of a key wins), nothing
\* else is recorded, and the value is that text as it stands: no comma is left
\* to remove from it, `primary: true` gives the string "true" and a quoted
\* literal keeps its quotes.
C12_RawArgs ==
    ExamplesCall =>
        \A i \in 1..Len(ret.examples.stories) :
            LET text == ArgsTextOf(ret.examples.stories[i].key)
                args == ret.examples.stories[i].val.args
                starts == CommaCuts(text) \ {Len(text) + 1}
            IN /\ \A j \in 1..Len(args) :
                     \E c \in starts :
                        /\ FragmentCounts(FragmentFrom(text, c))
                        /\ FragmentKey(FragmentFrom(text, c)) = args[j].key
                        /\ FragmentValue(FragmentFrom(text, c)) = args[j].val
                        /\ \A d \in starts :
                              d > c /\ FragmentCounts(FragmentFrom(text, d))
                                 => FragmentKey(FragmentFrom(text, d)) # args[j].key
               /\ \A c \in starts :
                     FragmentCounts(FragmentFrom(text, c))
                        => HasKey(args, FragmentKey(FragmentFrom(text, c)))
               /\ \A j, k \in 1..Len(args) : args[j].key = args[k].key => j = k

\* `primary: true, label: 'Button'` and `label: 'a, b', href: 'http://x', ` were
\* read: "true" is a string, the quotes stay, the comma inside the quotes cuts
\* the value, the colon inside the URL does not, the text after the last comma
\* gives no entry
C12_Witness ==
    /\ ExamplesCall
    /\ Len(ret.examples.stories) = 2
    /\ ret.examples.stories[1].key = "Primary"
    /\ ret.examples.stories[1].val.args
          = <<[key |-> "primary", val |-> "true"], [key |-> "label", val |-> "'Button'"]>>
    /\ ret.examples.stories[2].key = "Link"
    /\ ret.examples.stories[2].val.args
          = <<[key |-> "label", val |-> "'a"], [key |-> "href", val |-> "'http://x'"]>>

(***************************************************************************)
(* SpecParse: calls of parseStoryFile on story files                       *)
(***************************************************************************)
MaxStoryArgs == 2

ProjectDir == "/p"

\* a story file with no component, and one with a component, its import and argTypes
ParseHeads ==
    <<"// stories\n",
      "import { ButtonComponent } from './button.component';\nconst meta = {\n component: ButtonComponent,\n argTypes: { size: { control: 'select' }, label: { description: 'x' } },\n tags: ['autodocs'],\n};\nexport default meta;\n">>

ComponentSource == "@Component({ selector: 'app-button' })\nexport class ButtonComponent {}\n"

ExportNames == {"Primary", "PrimaryLarge"}

StoryArgKeys == <<"label", "size", "primary">>

\* the text of a value as a story file writes it
RawValues == {"true", "'false'", "42", "'-7'", "' '", "'Button'"}

StoryIds ==
    {"example-button--primary", "example-button--primary-large",
     "example-button--primaryLarge", "example-button--docs", "example-button",
     "example-button--", "example-button--primary("}

ArgsText(vals) == join([i \in 1..Len(vals) |-> StoryArgKeys[i] \o ": " \o vals[i]], ", ")

StoryDecl(name, vals) ==
    "export const " \o name \o (IF name = "Primary" THEN "" ELSE ": Story")
    \o " = { args: { " \o ArgsText(vals) \o " } };\n"

\* every list of values under the short head, one list under the long one
ParseSources ==
    {ParseHeads[1] \o StoryDecl(name, vals) :
        name \in ExportNames, vals \in UNION {[1..n -> RawValues] : n \in 0..MaxStoryArgs}}
    \cup {ParseHeads[2] \o StoryDecl(name, vals) :
            name \in ExportNames, vals \in {<<>>, <<"'Button'", "42">>}}

InitParse ==
    /\ \E src \in ParseSources, component \in {NoNode, File(ComponentSource)} :
          /\ component.kind = "file" => includes(src, "component:")
          /\ fs = (StoryFile :> File(src)) @@ (ComponentFile :> component)
    /\ InitCommon

CallParseStoryFile ==
    /\ Idle
    /\ \E storyId \in StoryIds :
          /\ call' = [fn |-> "parseStoryFile", path |-> StoryFile, storyId |-> storyId]
          /\ ret' = parseStoryFile(StoryFile, storyId, ProjectDir)
          /\ globals' = parseStoryFileShared(globals, StoryFile, storyId, ProjectDir)
          /\ UNCHANGED <<fs, log, requests, server>>

NextParse == CallParseStoryFile \/ Return

SpecParse == InitParse /\ [][NextParse]_vars

ParseCall == call.fn = "parseStoryFile"

ParseContent == NodeAt(call.path).data

\* the export name made of the words of a segment: the first letter of each word
\* upper-cased, the rest of the word lower-cased or left as it is
ExportNameBy(segment, lowerRest) ==
    LET words == split(segment, "-")
    IN join([i \in 1..Len(words) |->
               toUpperCase(SubSeq(words[i], 1, 1))
               \o (IF lowerRest THEN toLowerCase(SubSeq(words[i], 2, Len(words[i])))
                   ELSE SubSeq(words[i], 2, Len(words[i])))], "")

\* the story file read holds an export of that name with an args block
HasStoryArgs(name) == match(ParseContent, storyPattern(name)).ok

NoSegment(storyId) ==
    ~StoryNameOf(storyId).set \/ StoryNameOf(storyId).v \in {"", "docs"}

\* C6 (as stated): the export name is the segment after "--" with the first letter
\* of each hyphen-delimited word upper-cased and nothing else changed; args are
\* present exactly when the file has an export of that name with args, and absent
\* when there is no segment or the segment is docs.
C6_Claim ==
    (ParseCall /\ ret.k = "story") =>
        IF NoSegment(call.storyId) THEN ~ret.data.args.set
        ELSE ret.data.args.set
             <=> HasStoryArgs(ExportNameBy(StoryNameOf(call.storyId).v, FALSE))

\* C6 (amended): the export name is the segment after "--" with the first letter of
\* each hyphen-delimited word upper-cased and the rest of the word lower-cased;
\* args are present exactly when the file has an export of that name with args,
\* and absent when there is no segment, an empty one, or the segment docs.
C6_Derivation ==
    (ParseCall /\ ret.k = "story") =>
        IF NoSegment(call.storyId) THEN ~ret.data.args.set
        ELSE ret.data.args.set
             <=> HasStoryArgs(ExportNameBy(StoryNameOf(call.storyId).v, TRUE))

\* the id names PrimaryLarge in camel case, the file exports PrimaryLarge with args,
\* and the lookup of Primarylarge finds nothing
C6_Witness ==
    /\ ParseCall /\ ret.k = "story"
    /\ call.storyId = "example-button--primaryLarge"
    /\ includes(ParseContent, "export const PrimaryLarge: Story = { args: { label: 'Button'")
    /\ ~ret.data.args.set

\* one quote taken from each end of a trimmed value
StripQuotes(text) ==
    LET a == IF text # "" /\ Head(text) \in Quotes THEN Tail(text) ELSE text
    IN IF a # "" /\ CharAt(a, Len(a)) \in Quotes THEN SubSeq(a, 1, Len(a) - 1) ELSE a

\* text that is written as a number: digits with an optional sign, fraction or
\* exponent, a hexadecimal integer, Infinity
NumericLooking(text) ==
    \/ match(text, decimalIntegerRe).ok
    \/ match(text, hexIntegerRe).ok
    \/ match(text, decimalLiteralRe).ok

\* the args fragments of the story that the lookup matched
MatchedFragments ==
    LET m == match(ParseContent, storyPattern(PascalName(StoryNameOf(call.storyId).v)))
    IN split(Group(ParseContent, m, 1), ",")

\* C7: every fragment `key: value` of the matched story is stored under its key as
\* true or false when the trimmed, quote-stripped value is true or false, as a
\* number when it is numeric-looking text, and as the quote-stripped string
\* otherwise.
C7_Claim ==
    (ParseCall /\ ret.k = "story" /\ ret.data.args.set) =>
        \A i \in 1..Len(MatchedFragments) :
            LET line == MatchedFragments[i]
                colon == indexOf(line, ":")
                key == trim(SubSeq(line, 1, colon - 1))
                text == StripQuotes(trim(SubSeq(line, colon + 1, Len(line))))
                stored == Get(ret.data.args.v, key)
            IN (colon > 1 /\ key # "") =>
                  /\ HasKey(ret.data.args.v, key)
                  /\ CASE text = "true" -> stored = JBool(TRUE)
                       [] text = "false" -> stored = JBool(FALSE)
                       [] text \notin {"true", "false"} /\ NumericLooking(text) ->
                             stored.t = "number" /\ stored # JNaN
                       [] OTHER -> stored = JStr(text)

\* C8: for an existing story file with a component reference and any story id,
\* when no candidate component file exists the result is a StoryData with that
\* component, the controls of the argTypes block, and no componentDocs.
C8_Claim ==
    (/\ ParseCall
     /\ NodeAt(call.path).kind = "file"
     /\ includes(ParseContent, "component: ButtonComponent")
     /\ includes(ParseContent, "size: { control: 'select' }")
     /\ \A i \in 1..Len(extensions) :
           ~existsSync(FullPath("/p/src/button.component", extensions[i])))
    => /\ ret.k = "story"
       /\ ret.data.component = Some("ButtonComponent")
       /\ ret.data.argTypes.set
       /\ HasKey(ret.data.argTypes.v, "size")
       /\ Get(ret.data.argTypes.v, "size") = "select"
       /\ ~ret.data.componentDocs.set

\* C9: no call of a public function raises to its caller: the result is a value
\* or null.
C9_Claim == ret.k # "throw"

(***************************************************************************)
(* SpecExports: calls of parseStoryFile on story files with several        *)
(* exports, one name being the beginning of another                        *)
(***************************************************************************)
MaxExports == 2

ExportedNames == {"Primary", "PrimaryLarge", "Secondary"}

\* an export with an args block that names the export, or with no args block
ExportDecl(name, withArgs) ==
    "export const " \o name \o " = "
    \o (IF withArgs THEN "{ args: { label: '" \o name \o "' } }" ELSE "{}") \o ";\n"

\* up to MaxExports exports of different names, in every order
ExportLists ==
    {q \in UNION {[1..k -> ExportedNames \X BOOLEAN] : k \in 0..MaxExports} :
        \A i, j \in 1..Len(q) : i # j => q[i][1] # q[j][1]}

ExportSources ==
    {ParseHeads[1] \o Concat([i \in 1..Len(q) |-> ExportDecl(q[i][1], q[i][2])]) :
        q \in ExportLists}

InitExports ==
    /\ \E src \in ExportSources : fs = (StoryFile :> File(src))
    /\ InitCommon

NextExports == CallParseStoryFile \/ Return

SpecExports == InitExports /\ [][NextExports]_vars

\* the file read declares an export of exactly that name, and one of a longer
\* name that begins with it
exportOfRe(name, next) ==
    <<Lit("export"), Plus(WS), Lit("const"), Plus(WS), Lit(name), next>>

ExportsExactly(name) == match(ParseContent, exportOfRe(name, NotIn(WordChars))).ok
ExportsLonger(name) == match(ParseContent, exportOfRe(name, W)).ok

\* the args block of the export of exactly that name
exactPattern(pascalName) ==
    <<Lit("export"), Plus(WS), Lit("const"), Plus(WS), Lit(pascalName), NotIn(WordChars),
      Star(NotIn({"="})), Lit("="), Star(WS), Lit("{"), Star(NotIn({"}"})), Lit("args:"),
      Star(WS), Lit("{"), Grp(1, <<Plus(NotIn({"}"}))>>), Lit("}")>>

ExactArgs(name) ==
    LET exact == match(ParseContent, exactPattern(name))
    IN IF exact.ok
       THEN [set |-> TRUE, v |-> CoercedArgs(<<>>, split(Group(ParseContent, exact, 1), ","))]
       ELSE NoEntries

\* The statement of C21: the args returned for a story id are those of the
\* export whose name is exactly the derived PascalCase name; when the file also
\* has an export whose name begins with that name, before or after it, the args
\* of that other export are never returned.
C21_Claim ==
    (/\ ParseCall /\ ret.k = "story" /\ LooksUpStory(call.storyId)
     /\ ExportsExactly(PascalName(StoryNameOf(call.storyId).v))
     /\ ExportsLonger(PascalName(StoryNameOf(call.storyId).v)))
        => ret.data.args = ExactArgs(PascalName(StoryNameOf(call.storyId).v))

(***************************************************************************)
(* Spec: the files change between the calls of the functions that read     *)
(* them; log holds the previous call, the files it saw and its result      *)
(***************************************************************************)
StoryVersions ==
    {"import { ButtonComponent } from './button.component';\nconst meta = { component: ButtonComponent };\nexport default meta;\nexport const Primary = { args: { label: 'Go' } };\n",
     "import { ButtonComponent } from './button.component';\nconst meta = { component: ButtonComponent };\nexport default meta;\nexport const Primary = { args: { label: 'Stop' } };\nexport const Small = {};\n"}

ComponentVersions ==
    {"@Component({ selector: 'app-a', templateUrl: './button.html' })\nexport class ButtonComponent {}\n",
     "@Component({ selector: 'app-b', template: ~<i>b</i>~ })\nexport class ButtonComponent {}\n"}

VersionsOf(p) == IF p = StoryFile THEN StoryVersions ELSE ComponentVersions

Files == {StoryFile, ComponentFile}

Init ==
    /\ fs = [p \in Files |-> NoNode]
    /\ InitCommon

\* fs.writeFileSync by whoever edits the project
WriteFile ==
    /\ Idle
    /\ \E p \in Files :
       \E data \in VersionsOf(p) :
          /\ fs[p] # File(data)
          /\ fs' = [fs EXCEPT ![p] = File(data)]
    /\ UNCHANGED <<call, ret, log, globals, requests, server>>

\* fs.unlinkSync
Unlink ==
    /\ Idle
    /\ \E p \in Files :
          /\ fs[p].kind = "file"
          /\ fs' = [fs EXCEPT ![p] = NoNode]
    /\ UNCHANGED <<call, ret, log, globals, requests, server>>

ReadComponentDocs ==
    /\ Idle
    /\ call' = [fn |-> "extractComponentDocs", path |-> ComponentFile, storyId |-> ""]
    /\ ret' = extractComponentDocs(ComponentFile)
    /\ globals' = extractComponentDocsShared(globals, ComponentFile)
    /\ UNCHANGED <<fs, log, requests, server>>

ReadStoryExamples ==
    /\ Idle
    /\ call' = [fn |-> "extractStoryExamples", path |-> StoryFile, storyId |-> ""]
    /\ ret' = extractStoryExamples(StoryFile)
    /\ UNCHANGED <<fs, log, globals, requests, server>>

ReadStory ==
    /\ Idle
    /\ call' = [fn |-> "parseStoryFile", path |-> StoryFile,
                storyId |-> "example-button--primary"]
    /\ ret' = parseStoryFile(StoryFile, "example-button--primary", ProjectDir)
    /\ globals' = parseStoryFileShared(globals, StoryFile, "example-button--primary", ProjectDir)
    /\ UNCHANGED <<fs, log, requests, server>>

\* the caller takes the result; the call is remembered as the previous one
Done ==
    /\ ~Idle
    /\ log' = <<[call |-> call, fs |-> fs, ret |-> ret]>>
    /\ call' = NoCall
    /\ ret' = RetNull
    /\ UNCHANGED <<fs, globals, requests, server>>

Next ==
    \/ WriteFile
    \/ Unlink
    \/ ReadComponentDocs
    \/ ReadStoryExamples
    \/ ReadStory
    \/ Done

Spec == Init /\ [][Next]_vars

\* the values of an args object that are strings
StringValues(entries) ==
    {entries[i].val.s : i \in {j \in 1..Len(entries) : entries[j].val.t = "string"}}

OptionText(o) == IF o.set THEN {o.v} ELSE {}

\* the texts that a result carries out of the files
ResultTexts(r) ==
    IF r.k = "docs"
    THEN OptionText(r.docs.selector) \cup OptionText(r.docs.template)
         \cup OptionText(r.docs.templateUrl) \cup OptionText(r.docs.componentCode)
    ELSE IF r.k = "examples"
    THEN {r.examples.stories[i].val.code : i \in 1..Len(r.examples.stories)}
         \cup {r.examples.imports[i] : i \in 1..Len(r.examples.imports)}
         \cup OptionText(r.examples.meta)
    ELSE IF r.k = "story"
    THEN OptionText(r.data.component)
         \cup (IF r.data.args.set THEN StringValues(r.data.args.v) ELSE {})
         \cup (IF r.data.componentDocs.set
               THEN OptionText(r.data.componentDocs.v.selector)
                    \cup OptionText(r.data.componentDocs.v.template)
               ELSE {})
    ELSE {}

InCurrentFiles(text) == \E p \in DOMAIN fs : fs[p].kind = "file" /\ includes(fs[p].data, text)

MaxDeps == 2

PackageFile == "/p/package.json"

VersionPackages == <<"storybook", "@storybook/core", "@storybook/angular", "@storybook/react">>

\* version ranges: with an integer, and a tag without one
Ranges == {"^8.1.0", "~7.6", "latest"}

Sections == {"dependencies", "devDependencies"}

\* a declaration is a package (by its place in VersionPackages), a range, a section
Declarations == (1..Len(VersionPackages)) \X Ranges \X Sections

\* the members of a section, in the order of VersionPackages
RECURSIVE MembersFrom(_, _)
MembersFrom(mine, i) ==
    IF i > Len(VersionPackages) THEN <<>>
    ELSE (IF \E d \in mine : d[1] = i
          THEN <<"\"" \o VersionPackages[i] \o "\":\""
                 \o (CHOOSE d \in mine : d[1] = i)[2] \o "\"">>
          ELSE <<>>)
         \o MembersFrom(mine, i + 1)

SectionText(decls, section) ==
    "\"" \o section \o "\":{"
    \o join(MembersFrom({d \in decls : d[3] = section}, 1), ",") \o "}"

PackageText(decls) ==
    "{\"name\":\"demo\"," \o SectionText(decls, "dependencies") \o ","
    \o SectionText(decls, "devDependencies") \o "}"

\* sets of at most n declarations of different packages
RECURSIVE DeclarationSetsOf(_)
DeclarationSetsOf(n) ==
    IF n = 0 THEN {{}}
    ELSE LET less == DeclarationSetsOf(n - 1)
         IN less \cup UNION {{ds \cup {d} :
                                d \in {e \in Declarations : \A x \in ds : x[1] < e[1]}} :
                             ds \in less}

DeclarationSets == DeclarationSetsOf(MaxDeps)

PackageNodes ==
    {NoNode, Dir, File("{\"name\":\"demo\",\"dependencies\":{"), File("{\"name\":\"demo\"}")}
    \cup {File(PackageText(ds)) : ds \in DeclarationSets}

InitVersion ==
    /\ \E node \in PackageNodes : fs = (PackageFile :> node)
    /\ InitCommon

CallDetectStorybookVersion ==
    /\ Idle
    /\ call' = [fn |-> "detectStorybookVersion", projectDir |-> ProjectDir]
    /\ ret' = detectStorybookVersion(ProjectDir)
    /\ UNCHANGED <<fs, log, globals, requests, server>>

NextVersion == CallDetectStorybookVersion \/ Return

SpecVersion == InitVersion /\ [][NextVersion]_vars

VersionCall == call.fn = "detectStorybookVersion"

\* the dependencies that the project declares, when its package.json can be read
VersionReadable == fs[PackageFile].kind = "file" /\ ~JSONParseRaises(fs[PackageFile].data)

VersionDeps == DepsOf(fs[PackageFile].data)

\* the result for the storybook package (else @storybook/core), when it has an integer
MainVersion ==
    LET range == IF Declared(VersionDeps, "storybook") THEN Get(VersionDeps, "storybook")
                 ELSE IF Declared(VersionDeps, "@storybook/core")
                 THEN Get(VersionDeps, "@storybook/core")
                 ELSE ""
    IN IF HasInteger(range) THEN RetNumber(FirstInteger(range)) ELSE RetNull

DeclaredFrameworks ==
    {i \in 1..Len(frameworkPackages) : Declared(VersionDeps, frameworkPackages[i])}

\* C15 (as stated): the first integer of the range of storybook (else
\* @storybook/core); when that gives none, the first integer of the first declared
\* framework package in the order angular, react, vue3, svelte, web-components;
\* null for a missing or invalid package.json or when none of them is declared.
C15_Claim ==
    VersionCall =>
        IF ~VersionReadable THEN ret = RetNull
        ELSE IF MainVersion # RetNull THEN ret = MainVersion
        ELSE IF DeclaredFrameworks = {} THEN ret = RetNull
        ELSE LET range == Get(VersionDeps, frameworkPackages[Min(DeclaredFrameworks)])
             IN ret = IF HasInteger(range) THEN RetNumber(FirstInteger(range)) ELSE RetNull

\* C15 (amended): the first integer of the range of storybook (else
\* @storybook/core); when that gives none, the first integer of the first
\* framework package, in the order angular, react, vue3, svelte, web-components,
\* that is declared with a range holding an integer; null for a missing or
\* invalid package.json and when no declared range of these gives an integer.
C15_Version ==
    VersionCall =>
        IF ~VersionReadable THEN ret = RetNull
        ELSE IF MainVersion # RetNull THEN ret = MainVersion
        ELSE LET withInteger == {i \in DeclaredFrameworks :
                                   HasInteger(Get(VersionDeps, frameworkPackages[i]))}
             IN ret = IF withInteger = {} THEN RetNull
                      ELSE RetNumber(FirstInteger(Get(VersionDeps,
                                                      frameworkPackages[Min(withInteger)])))

\* angular is declared with a tag, react with a range: the version is that of react
C15_Witness ==
    /\ VersionCall /\ VersionReadable
    /\ Declared(VersionDeps, "@storybook/angular")
    /\ Get(VersionDeps, "@storybook/angular") = "latest"
    /\ Declared(VersionDeps, "@storybook/react")
    /\ Get(VersionDeps, "@storybook/react") = "~7.6"
    /\ ret = RetNumber(7)

(***************************************************************************)
(* SpecProbe: parseStoryFile and the candidates of the component file      *)
(***************************************************************************)
MaxCandidates == 2

\* the import paths of the story files, each with the paths that lines
\* 208-210 probe for it, in the order of the probes
ProbeImports ==
    <<[from |-> "./button.component",
       candidates |-> <<"/p/src/button.component.ts", "/p/src/button.component.tsx",
                        "/p/src/button.component.js", "/p/src/button.component.jsx",
                        "/p/src/button.component.vue", "/p/src/button.component.svelte">>],
      [from |-> "./button.component.tsx",
       candidates |-> <<"/p/src/button.component.tsx.ts", "/p/src/button.component.tsx",
                        "/p/src/button.component.tsx.js", "/p/src/button.component.tsx.jsx",
                        "/p/src/button.component.tsx.vue",
                        "/p/src/button.component.tsx.svelte">>],
      [from |-> "../lib/card.vue",
       candidates |-> <<"/p/lib/card.vue.ts", "/p/lib/card.vue.tsx", "/p/lib/card.vue.js",
                        "/p/lib/card.vue.jsx", "/p/lib/card.vue", "/p/lib/card.vue.svelte">>]>>

ProbeStory(from) ==
    "import { ButtonComponent } from '" \o from
    \o "';\nconst meta = { component: ButtonComponent };\nexport default meta;\n"

\* a component file that names the place it stands at in the order of the probes
ProbeSelector(i) == "at-" \o NatToStr(i)

ProbeComponent(i) ==
    File("@Component({ selector: '" \o ProbeSelector(i) \o "' })\nexport class ButtonComponent {}\n")

\* the candidates that exist: at most MaxCandidates of them, files or directories
RECURSIVE ProbeNodesOf(_, _)
ProbeNodesOf(candidates, n) ==
    IF n = 0 THEN {<<>>}
    ELSE LET less == ProbeNodesOf(candidates, n - 1)
         IN less \cup
            UNION {UNION {{nodes @@ (candidates[i] :> ProbeComponent(i)),
                           nodes @@ (candidates[i] :> Dir)} :
                          i \in {j \in 1..Len(candidates) :
                                   \A q \in DOMAIN nodes : \A k \in 1..j : candidates[k] # q}} :
                   nodes \in less}

InitProbe ==
    /\ \E p \in 1..Len(ProbeImports) :
          \E nodes \in ProbeNodesOf(ProbeImports[p].candidates, MaxCandidates) :
             fs = (StoryFile :> File(ProbeStory(ProbeImports[p].from))) @@ nodes
    /\ InitCommon

CallProbe ==
    /\ Idle
    /\ \E storyId \in {"example-button--primary"} :
          /\ call' = [fn |-> "parseStoryFile", path |-> StoryFile, storyId |-> storyId]
          /\ ret' = parseStoryFile(StoryFile, storyId, ProjectDir)
          /\ globals' = parseStoryFileShared(globals, StoryFile, storyId, ProjectDir)
          /\ UNCHANGED <<fs, log, requests, server>>

NextProbe == CallProbe \/ Return

SpecProbe == InitProbe /\ [][NextProbe]_vars

\* the candidates of the import that the story file of this behaviour holds
ProbeCandidates ==
    ProbeImports[CHOOSE p \in 1..Len(ProbeImports) :
                    fs[StoryFile].data = ProbeStory(ProbeImports[p].from)].candidates

ProbeExisting == {i \in 1..Len(ProbeCandidates) : NodeAt(ProbeCandidates[i]).kind # "none"}

\* C17: parseStoryFile takes the component docs from the first candidate, in the
\* order .ts, .tsx, .js, .jsx, .vue, .svelte appended to the resolved import path
\* (the path itself where it ends with the extension), that exists, and from no
\* other: the record has component docs exactly when that candidate is a file,
\* they are the docs of that file, and there are none when no candidate exists
\* or the first existing one is a directory, whatever stands later in the order.
C17_FirstCandidate ==
    ParseCall /\ ret.k = "story" =>
        IF ProbeExisting = {} THEN ~ret.data.componentDocs.set
        ELSE LET first == Min(ProbeExisting)
             IN IF NodeAt(ProbeCandidates[first]).kind = "file"
                THEN /\ ret.data.componentDocs.set
                     /\ ret.data.componentDocs.v.selector = Some(ProbeSelector(first))
                ELSE ~ret.data.componentDocs.set

\* the import already ends with .tsx: that path itself is the second candidate
\* and is used although the .vue candidate exists as well
C17_Witness ==
    /\ ParseCall /\ ret.k = "story"
    /\ ProbeCandidates[2] = "/p/src/button.component.tsx"
    /\ ProbeExisting = {2, 5}
    /\ NodeAt(ProbeCandidates[5]).kind = "file"
    /\ ret.data.componentDocs.set
    /\ ret.data.componentDocs.v.selector = Some("at-2")

(***************************************************************************)
(* SpecApi: the server answers requests, one connection at a time          *)
(* SpecServer: the handlers of two requests interleave at their awaits     *)
(***************************************************************************)
MaxRequests == 2

StorybookUrl == "http://localhost:6006"

MdxFile == "/p/src/button.mdx"

Entry(id, name, title, kind, importPath, tags, type) ==
    [id |-> Some(id), name |-> Some(name), title |-> Some(title), kind |-> kind,
     importPath |-> importPath, tags |-> tags, type |-> Some(type)]

\* the entries of index.json: a story with tags and no kind, a docs page with a
\* kind and no tags, a story whose file is not in the project, a page without
\* importPath
IndexEntries ==
    <<[key |-> "example-button--primary",
       val |-> Entry("example-button--primary", "Primary", "Example/Button", None,
                     Some("./src/button.stories.ts"), [set |-> TRUE, v |-> <<"autodocs">>],
                     "story")],
      [key |-> "example-button--docs",
       val |-> Entry("example-button--docs", "Docs", "Example/Button", Some("Example"),
                     Some("./src/button.mdx"), NoTags, "docs")],
      [key |-> "example-card--plain",
       val |-> Entry("example-card--plain", "Plain", "Example/Card", Some(""),
                     Some("src/card.stories.ts"), [set |-> TRUE, v |-> <<>>], "story")],
      [key |-> "intro--page",
       val |-> Entry("intro--page", "Page", "Intro", None, None, NoTags, "docs")]>>

DataNull == [null |-> TRUE, entries |-> NoEntries]
DataEmpty == [null |-> FALSE, entries |-> NoEntries]
DataIndex == [null |-> FALSE, entries |-> [set |-> TRUE, v |-> IndexEntries]]

\* what response.json() resolves to
Bodies == {DataNull, DataEmpty, DataIndex}

ApiStory ==
    "import { ButtonComponent } from './button.component';\nconst meta = { component: ButtonComponent };\nexport default meta;\nexport const Primary = { args: { primary: true, label: 'Button' } };\nexport const Small: Story = { args: { size: 12 } };\n"

ApiComponent ==
    "@Component({ selector: 'app-button' })\nexport class ButtonComponent {\n/** Label */\n@Input() label: string;\n}\n"

\* a component without a selector that declares a field named __proto__
ApiComponentProto == "export class ButtonComponent {\n__proto__: Base;\n}\n"

AngularPackage == "{\"dependencies\": {\"@angular/core\": \"^17.0.0\"}}"
ReactPackage == "{\"devDependencies\": {\"react\": \"^18.2.0\"}}"

\* the projects the server is started in
Projects ==
    {(PackageFile :> File(AngularPackage)) @@ (StoryFile :> File(ApiStory))
        @@ (ComponentFile :> File(ApiComponent)) @@ (MdxFile :> File("# Button\n")),
     (PackageFile :> File(ReactPackage)) @@ (StoryFile :> File(ApiStory))
        @@ (ComponentFile :> File(ApiComponent \o "__proto__: Base;\n")) @@ (MdxFile :> Dir),
     (PackageFile :> NoNode) @@ (StoryFile :> Dir)
        @@ (ComponentFile :> File(ApiComponent)) @@ (MdxFile :> NoNode),
     (PackageFile :> File(AngularPackage)) @@ (StoryFile :> File(ApiStory))
        @@ (ComponentFile :> File(ApiComponentProto)) @@ (MdxFile :> File("# Button\n")),
     (PackageFile :> File(ReactPackage)) @@ (StoryFile :> File("export const Plain = {};\n"))
        @@ (ComponentFile :> NoNode) @@ (MdxFile :> File(""))}

\* createApp(config) has run and the server listens: framework is the constant of
\* line 25
Listening(maxConnections) ==
    [state |-> "listening", framework |-> detectFramework(ProjectDir),
     maxConnections |-> maxConnections]

InitApi ==
    /\ fs \in Projects
    /\ call = NoCall /\ ret = RetNull /\ log = <<>>
    /\ globals = {} /\ requests = <<>>
    /\ server = Listening(1)

InitServer ==
    /\ fs \in {f \in Projects : f[ComponentFile].kind = "file" /\ f[StoryFile].kind = "file"}
    /\ call = NoCall /\ ret = RetNull /\ log = <<>>
    /\ globals = {} /\ requests = <<>>
    /\ server = Listening(MaxRequests)

StoryIdParams ==
    {"example-button--primary", "example-button--docs", "example-card--plain", "intro--page",
     "constructor", "tsType", "no-such--story"}

KindParams == {"Example/Button", "Example", "Other"}

\* a request arrives and its handler runs up to await fetch(...)
Receive(route, params) ==
    /\ Idle
    /\ Len(requests) < server.maxConnections
    /\ \E param \in params :
          requests' = Append(requests, [route |-> route, param |-> param, pc |-> "fetch"])
    /\ UNCHANGED <<fs, call, ret, log, globals, server>>

ReceiveStories == Receive("stories", {""})
ReceiveStory == Receive("story", StoryIdParams)
ReceiveDocs == Receive("docs", StoryIdParams)
ReceiveKind == Receive("kind", KindParams)

RemoveAt(frames, i) == SubSeq(frames, 1, i - 1) \o SubSeq(frames, i + 1, Len(frames))

\* res.status(...).json(...): the response leaves, the handler is over
Respond(i, upstream, data, res) ==
    /\ call' = [fn |-> requests[i].route, param |-> requests[i].param,
                upstream |-> upstream, data |-> data, globals |-> globals]
    /\ ret' = res
    /\ requests' = RemoveAt(requests, i)

\* the 503 of each route
NotReady(route) ==
    IF route = "stories"
    THEN Res(503, [success |-> FALSE, error |-> "Storybook is not ready. Please wait...",
                   hint |-> "Make sure Storybook is running at " \o StorybookUrl])
    ELSE Failure(503, "Storybook is not ready")

FetchMessage == "request to " \o StorybookUrl \o "/index.json failed"
JsonMessage == "invalid json response body at " \o StorybookUrl \o "/index.json"

\* fetch rejects: the catch of the handler
FetchRejects ==
    /\ Idle
    /\ \E i \in 1..Len(requests) :
          /\ requests[i].pc = "fetch"
          /\ Respond(i, "rejected", DataEmpty, Failure(500, FetchMessage))
    /\ UNCHANGED <<fs, log, globals, server>>

\* fetch resolves with a response that is not ok
FetchNotOk ==
    /\ Idle
    /\ \E i \in 1..Len(requests) :
          /\ requests[i].pc = "fetch"
          /\ Respond(i, "notok", DataEmpty, NotReady(requests[i].route))
    /\ UNCHANGED <<fs, log, globals, server>>

\* fetch resolves with an ok response: the handler runs up to await response.json()
FetchOk ==
    /\ Idle
    /\ \E i \in 1..Len(requests) :
          /\ requests[i].pc = "fetch"
          /\ requests' = [requests EXCEPT ![i].pc = "json"]
    /\ UNCHANGED <<fs, call, ret, log, globals, server>>

\* response.json() rejects: the body is no JSON
JsonRejects ==
    /\ Idle
    /\ \E i \in 1..Len(requests) :
          /\ requests[i].pc = "json"
          /\ Respond(i, "invalid", DataEmpty, Failure(500, JsonMessage))
    /\ UNCHANGED <<fs, log, globals, server>>

\* response.json() resolves in GET /api/stories: the handler runs to its response
StoriesResolves ==
    /\ Idle
    /\ \E i \in 1..Len(requests) :
       \E data \in Bodies :
          /\ requests[i].route = "stories" /\ requests[i].pc = "json"
          /\ Respond(i, "data", data, ListStories(data))
    /\ UNCHANGED <<fs, log, globals, server>>

\* response.json() resolves in GET /api/stories/:storyId
StoryResolves ==
    /\ Idle
    /\ \E i \in 1..Len(requests) :
       \E data \in Bodies :
          /\ requests[i].route = "story" /\ requests[i].pc = "json"
          /\ Respond(i, "data", data, GetStory(globals, data, requests[i].param, ProjectDir))
          /\ globals' = GetStoryShared(globals, data, requests[i].param, ProjectDir)
    /\ UNCHANGED <<fs, log, server>>

\* response.json() resolves in GET /api/docs/:storyId
DocsResolves ==
    /\ Idle
    /\ \E i \in 1..Len(requests) :
       \E data \in Bodies :
          /\ requests[i].route = "docs" /\ requests[i].pc = "json"
          /\ Respond(i, "data", data,
                     GetDocs(globals, data, requests[i].param, ProjectDir, server.framework))
          /\ globals' = GetDocsShared(globals, data, requests[i].param, ProjectDir)
    /\ UNCHANGED <<fs, log, server>>

\* response.json() resolves in GET /api/stories/kind/:kind
KindResolves ==
    /\ Idle
    /\ \E i \in 1..Len(requests) :
       \E data \in Bodies :
          /\ requests[i].route = "kind" /\ requests[i].pc = "json"
          /\ Respond(i, "data", data, ListKind(data, requests[i].param))
    /\ UNCHANGED <<fs, log, globals, server>>

NextApi ==
    \/ ReceiveStories
    \/ ReceiveStory
    \/ ReceiveDocs
    \/ ReceiveKind
    \/ FetchRejects
    \/ FetchNotOk
    \/ FetchOk
    \/ JsonRejects
    \/ StoriesResolves
    \/ StoryResolves
    \/ DocsResolves
    \/ KindResolves
    \/ Return

SpecApi == InitApi /\ [][NextApi]_vars

NextServer ==
    \/ ReceiveStory
    \/ ReceiveDocs
    \/ FetchRejects
    \/ FetchNotOk
    \/ FetchOk
    \/ JsonRejects
    \/ StoryResolves
    \/ DocsResolves
    \/ Return

SpecServer == InitServer /\ [][NextServer]_vars

\* a response of the handler of a route to an index that was parsed
Handled(route) == call.fn = route /\ call.upstream = "data"

\* the file of the project that an importPath of the index names
ImportedPath(importPath) ==
    CASE importPath = "./src/button.stories.ts" -> StoryFile
      [] importPath = "./src/button.mdx" -> MdxFile
      [] OTHER -> "/p/src/card.stories.ts"

\* C13: for a story id that is a key of the entries of the index, GET
\* /api/stories/:storyId answers 200 with success true and a story whose id,
\* name, title, importPath and type are those of the entry, whose kind is the
\* kind of the entry or, without one, its title, and whose tags are the tags of
\* the entry or, without them, the empty list, whatever the story file is;
\* component, args, argTypes (and docs) are there exactly when the entry has an
\* importPath and parseStoryFile returns a record for that file, and they are
\* what that record holds, args and argTypes being empty maps when it has none.
C13_StoryFromEntry ==
    (Handled("story") /\ call.data = DataIndex /\ HasKey(IndexEntries, call.param)) =>
        LET entry == Get(IndexEntries, call.param)
            story == ret.body.story.entry
            details == ret.body.story.details
            parsed == parseStoryFile(ImportedPath(entry.importPath.v), call.param, ProjectDir)
        IN /\ ret.status = 200 /\ ret.body.success
           /\ story.id = entry.id /\ story.name = entry.name /\ story.title = entry.title
           /\ story.importPath = entry.importPath /\ story.type = entry.type
           /\ story.kind = (IF entry.kind.set /\ entry.kind.v # "" THEN entry.kind
                            ELSE entry.title)
           /\ story.tags = (IF entry.tags.set THEN entry.tags.v ELSE <<>>)
           /\ details.parsed <=> (/\ entry.importPath.set
                                  /\ NodeAt(ImportedPath(entry.importPath.v)).kind = "file")
           /\ details.parsed =>
                 /\ parsed.k = "story"
                 /\ details.component = parsed.data.component
                 /\ details.args = (IF parsed.data.args.set THEN parsed.data.args.v ELSE <<>>)
                 /\ details.argTypes
                      = (IF parsed.data.argTypes.set THEN parsed.data.argTypes.v ELSE <<>>)
                 /\ details.docs = parsed.data.componentDocs
           /\ ~details.parsed => details = NoDetails

\* the story of the index whose file is read: the kind is the title, the args are
\* those of the story file
C13_Witness ==
    /\ Handled("story") /\ call.data = DataIndex
    /\ call.param = "example-button--primary"
    /\ ret.status = 200
    /\ ret.body.story.entry.kind = Some("Example/Button")
    /\ ret.body.story.entry.tags = <<"autodocs">>
    /\ ret.body.story.details.parsed
    /\ ret.body.story.details.component = Some("ButtonComponent")
    /\ ret.body.story.details.args
         = <<[key |-> "primary", val |-> JBool(TRUE)], [key |-> "label", val |-> JStr("Button")]>>
    /\ ret.body.story.details.argTypes = <<>>

\* the framework that detectFramework finds in the package.json of the project
ProjectFramework ==
    IF fs[PackageFile] = File(AngularPackage) THEN "angular"
    ELSE IF fs[PackageFile] = File(ReactPackage) THEN "react"
    ELSE "unknown"

\* the story file names a component whose file states the selector app-button
SelectorInProject ==
    /\ fs[StoryFile].kind = "file"
    /\ includes(fs[StoryFile].data, "component: ButtonComponent")
    /\ fs[ComponentFile].kind = "file"
    /\ includes(fs[ComponentFile].data, "selector: 'app-button'")

\* C14: in a response of GET /api/docs/:storyId with docs, usageExamples is there
\* exactly when the entry names the story file, that file was read for its
\* examples and a selector was taken from the component file; it then has one
\* entry for each name of storyExamples, in the same order, and the entry of a
\* name is generateUsageExample of the selector, the args of that story as
\* extractStoryExamples holds them (strings), the name, and the framework of the
\* project.
C14_UsageExamples ==
    (Handled("docs") /\ ret.status = 200) =>
        LET files == ret.body.docs.files
        IN /\ files.usage <=> (files.selector.set /\ files.examples)
           /\ files.usage <=> (/\ HasKey(call.data.entries.v, call.param)
                               /\ Get(call.data.entries.v, call.param).importPath
                                    = Some("./src/button.stories.ts")
                               /\ SelectorInProject)
           /\ ~files.usage => files.usageExamples = <<>>
           /\ files.usage =>
                 /\ Keys(files.usageExamples) = Keys(files.storyExamples)
                 /\ \A i \in 1..Len(files.storyExamples) :
                       LET raw == files.storyExamples[i].val.args
                       IN files.usageExamples[i].val
                            = generateUsageExample(
                                 JStr("app-button"),
                                 Obj([j \in 1..Len(raw) |->
                                        [key |-> raw[j].key, val |-> JStr(raw[j].val)]]),
                                 JStr(files.storyExamples[i].key),
                                 JStr(ProjectFramework))

\* the docs of a story of a React project: one example for each of the two
\* stories of the file, the quoted literal with its quotes, the number as text
C14_Witness ==
    /\ Handled("docs") /\ ret.status = 200
    /\ ProjectFramework = "react"
    /\ ret.body.docs.head.framework = "react"
    /\ Keys(ret.body.docs.files.storyExamples) = <<"Primary", "Small">>
    /\ ret.body.docs.files.usageExamples
         = <<[key |-> "Primary",
              val |-> RetString("<!-- Primary Example -->\n<app-button\n    primary={true}\n    label='Button'>\n</app-button>")],
             [key |-> "Small",
              val |-> RetString("<!-- Small Example -->\n<app-button\n    size=\"12\">\n</app-button>")]>>

\* whether the handler of the docs raises: readFileSync of a directory that
\* existsSync found at the importPath of the entry
DocsReadRaises ==
    /\ call.fn = "docs"
    /\ HasKey(call.data.entries.v, call.param)
    /\ Get(call.data.entries.v, call.param).importPath.set
    /\ NodeAt(ImportedPath(Get(call.data.entries.v, call.param).importPath.v)).kind = "dir"

\* the status that the order 503, 404, 500, 200 gives the response at hand
ExpectedStatus ==
    IF call.upstream = "notok" THEN 503
    ELSE IF call.upstream \in {"rejected", "invalid"} \/ call.data.null THEN 500
    ELSE IF call.fn \in {"story", "docs"} /\ ~HasKey(call.data.entries.v, call.param) THEN 404
    ELSE IF DocsReadRaises THEN 500
    ELSE 200

\* The statement of C19: the response of a request whose fetch has completed is
\* 503 when the upstream answer is not OK, else 404 when the id is no key of the
\* entries of the index, else 500 when handling raises, else 200; success is
\* true with 200 alone.
C19_Claim ==
    ~Idle =>
        /\ ret.status = ExpectedStatus
        /\ ret.body.success <=> ret.status = 200

\* the response that the request at hand gets when it is handled alone: the
\* same index, the same files, no request before it
ResponseAlone ==
    IF call.upstream # "data" THEN ret
    ELSE IF call.fn = "story" THEN GetStory({}, call.data, call.param, ProjectDir)
    ELSE GetDocs({}, call.data, call.param, ProjectDir, ProjectFramework)

\* The statement of C11: in every interleaving of the handlers, the response of
\* a request is the response it gets when handled alone, no handler has written
\* to the objects that the requests share, and the files are those of the
\* project.
C11_Claim ==
    /\ globals = {}
    /\ fs \in Projects
    /\ ~Idle => ret = ResponseAlone

\* the first part of C11 alone: the response of a request is the response it
\* gets when handled alone
C11_ResponseAlone == ~Idle => ret = ResponseAlone

(***************************************************************************)
(* SpecSource: GET /api/docs/:storyId and parseStoryFile look for the      *)
(* component file of the same story file in the same project                *)
(***************************************************************************)
MaxNodes == 2

\* import paths, each with the path it resolves to and two of the paths that
\* are probed with an extension appended
SourceImports ==
    <<[from |-> "./button.component",
       candidates |-> <<"/p/src/button.component", "/p/src/button.component.ts",
                        "/p/src/button.component.tsx">>],
      [from |-> "./button.component.tsx",
       candidates |-> <<"/p/src/button.component.tsx", "/p/src/button.component.tsx.ts",
                        "/p/src/button.component.tsx.js">>]>>

\* the server listens in a project whose story file imports the component; at
\* most MaxNodes of the candidates exist, as files or directories
InitSource ==
    /\ \E p \in 1..Len(SourceImports) :
          \E nodes \in ProbeNodesOf(SourceImports[p].candidates, MaxNodes) :
             fs = (PackageFile :> File(AngularPackage))
                  @@ (StoryFile :> File(ProbeStory(SourceImports[p].from))) @@ nodes
    /\ call = NoCall /\ ret = RetNull /\ log = <<>>
    /\ globals = {} /\ requests = <<>>
    /\ server = Listening(1)

NextSource ==
    \/ ReceiveDocs
    \/ FetchRejects
    \/ FetchNotOk
    \/ FetchOk
    \/ JsonRejects
    \/ DocsResolves
    \/ CallProbe
    \/ Return

SpecSource == InitSource /\ [][NextSource]_vars

\* one of the two has just acted on the story file: the handler answered 200
\* for the story of the index that names it, or parseStoryFile returned a record
SourceCompared ==
    \/ /\ Handled("docs") /\ call.param = "example-button--primary"
       /\ call.data = DataIndex /\ ret.status = 200
    \/ ParseCall /\ ret.k = "story"

\* what each of them reports of the component, on the files of this state
HandlerDocs ==
    IF call.fn = "docs" THEN ret.body.docs.files
    ELSE StoryFileDocs(StoryFile, server.framework)

ParsedDocs ==
    IF ParseCall THEN ret.data.componentDocs
    ELSE parseStoryFile(StoryFile, call.param, ProjectDir).data.componentDocs

\* The statement of C22: for the same story file and the same files, the
\* handler of GET /api/docs/:storyId and parseStoryFile pick the same component
\* file; whenever one of them obtains component docs, the other obtains docs
\* from the same file.
C22_Claim ==
    (SourceCompared /\ (HandlerDocs.found \/ ParsedDocs.set)) =>
        /\ HandlerDocs.found /\ ParsedDocs.set
        /\ DocsComponentFile(StoryFile) = ComponentFileOf(StoryFile, readFileSync(StoryFile))
        /\ HandlerDocs.selector = ParsedDocs.v.selector

(***************************************************************************)
(* SpecLifecycle: startServer, requests, signals and the end of the        *)
(* process.  SpecShutdown is the same with the close callback run once it  *)
(* is due.                                                                 *)
(***************************************************************************)
MaxSignals == 2

Methods == {"GET", "POST"}

\* paths of the API as written and with other case or a trailing slash, paths
\* that no route takes (a route without its parameter, a kind with a slash in
\* it), paths of Storybook
Paths ==
    {"/api", "/api/stories/", "/API/Docs/example-button--docs", "/api/stories/kind/Example",
     "/api/stories/kind/Example/Button", "/api/docs", "/index.json", "/"}

\* the process runs, startServer has not been called
NotStarted ==
    [state |-> "none", proxy |-> FALSE, spawned |-> 0, child |-> "none",
     signals |-> 0, exitCode |-> -1]

InitLifecycle ==
    /\ fs = <<>>
    /\ call = NoCall /\ ret = RetNull /\ log = <<>>
    /\ globals = {} /\ requests = <<>>
    /\ server = NotStarted

\* startServer(config): createApp, startStorybookProcess and the proxy when
\* config.proxy is set, app.listen, the handlers of SIGINT and SIGTERM
StartServer ==
    /\ server.state = "none"
    /\ \E proxy \in BOOLEAN :
          server' = [server EXCEPT
                       !.state = "listening",
                       !.proxy = proxy,
                       !.spawned = IF proxy THEN @ + 1 ELSE @,
                       !.child = IF proxy THEN "running" ELSE "none"]
    /\ UNCHANGED <<fs, call, ret, log, globals, requests>>

\* a request on a new connection: it is answered by a route, by Storybook
\* through the proxy, or by express
Connect ==
    /\ server.state = "listening"
    /\ Len(requests) < MaxRequests
    /\ \E method \in Methods, path \in Paths :
          requests' = Append(requests, [method |-> method, path |-> path,
                                        by |-> RouteOf(method, path, server.proxy)])
    /\ UNCHANGED <<fs, call, ret, log, globals, server>>

\* the response is sent and the connection ends
Disconnect ==
    /\ server.state \in {"listening", "closing"}
    /\ \E i \in 1..Len(requests) :
          requests' = SubSeq(requests, 1, i - 1) \o SubSeq(requests, i + 1, Len(requests))
    /\ UNCHANGED <<fs, call, ret, log, globals, server>>

\* the Storybook process ends, by itself or after kill()
ChildExits ==
    /\ server.state \in {"listening", "closing"}
    /\ server.child \in {"running", "killed"}
    /\ server' = [server EXCEPT !.child = "exited"]
    /\ UNCHANGED <<fs, call, ret, log, globals, requests>>

\* SIGINT or SIGTERM: shutdown()
Signal ==
    /\ server.state \in {"listening", "closing"}
    /\ server.signals < MaxSignals
    /\ \E signal \in {"SIGINT", "SIGTERM"} :
          /\ log' = log \o ShutdownCalls(server.child)
          /\ server' = [server EXCEPT
                          !.state = "closing",
                          !.signals = @ + 1,
                          !.child = IF @ = "running" THEN "killed" ELSE @]
    /\ UNCHANGED <<fs, call, ret, globals, requests>>

\* the server has stopped listening and its last connection has ended: 'close'
CloseCompletes ==
    /\ server.state = "closing"
    /\ requests = <<>>
    /\ server' = [server EXCEPT !.state = "closed"]
    /\ log' = Append(log, "closed")
    /\ UNCHANGED <<fs, call, ret, globals, requests>>

\* the callback of server.close: process.exit(0)
Exit ==
    /\ server.state = "closed"
    /\ server' = [server EXCEPT !.state = "exited", !.exitCode = 0]
    /\ log' = Append(log, "exit")
    /\ UNCHANGED <<fs, call, ret, globals, requests>>

NextLifecycle ==
    \/ StartServer
    \/ Connect
    \/ Disconnect
    \/ ChildExits
    \/ Signal
    \/ CloseCompletes
    \/ Exit

SpecLifecycle == InitLifecycle /\ [][NextLifecycle]_vars

\* the 'close' event calls its listeners at once: the callback is not put off
SpecShutdown == InitLifecycle /\ [][NextLifecycle]_vars /\ WF_vars(Exit)

\* a path that the routes of the API define, whatever the method
DefinedApiPaths ==
    {"/api", "/api/stories/", "/API/Docs/example-button--docs", "/api/stories/kind/Example"}

\* C16: without the proxy no Storybook process is started and no request is
\* answered by Storybook; with it exactly one process is started once the
\* server runs, a GET of a path of the API is answered by its route, and what
\* Storybook answers is no GET of a path of the API.
C16_ProxyAndRoutes ==
    /\ server.state = "none" => server.spawned = 0
    /\ (server.state # "none" /\ ~server.proxy) =>
          /\ server.spawned = 0 /\ server.child = "none"
          /\ \A i \in 1..Len(requests) : requests[i].by # "storybook"
    /\ (server.state # "none" /\ server.proxy) =>
          /\ server.spawned = 1
          /\ \A i \in 1..Len(requests) :
                /\ (requests[i].method = "GET" /\ requests[i].path \in DefinedApiPaths)
                      => requests[i].by \in {"api", "stories", "story", "docs", "kind"}
                /\ requests[i].by = "storybook"
                      => ~(requests[i].method = "GET" /\ requests[i].path \in DefinedApiPaths)

\* with the proxy, a GET of /api/stories/ is answered by the route of the
\* stories while a POST of the same path and a GET of /index.json go to Storybook
C16_Witness ==
    /\ server.proxy /\ server.spawned = 1
    /\ Len(requests) = 2
    /\ requests[1] = [method |-> "POST", path |-> "/api/stories/", by |-> "storybook"]
    /\ requests[2] = [method |-> "GET", path |-> "/api/stories/", by |-> "stories"]

\* the calls and events of the shutdown so far are in order
ShutdownInOrder ==
    /\ \A i \in 1..Len(log) :
          (log[i] = "close" /\ server.spawned > 0) => (i > 1 /\ log[i - 1] = "kill")
    /\ \A i \in 1..Len(log) : log[i] = "kill" => server.spawned > 0
    /\ \A i \in 1..Len(log) :
          log[i] = "exit" => \E j \in 1..(i - 1) : log[j] = "closed"
    /\ \A i \in 1..Len(log) :
          log[i] = "closed" => \E j \in 1..(i - 1) : log[j] = "close"
    /\ server.state = "exited" <=> (log # <<>> /\ log[Len(log)] = "exit")
    /\ server.state = "exited" => server.exitCode = 0
    /\ server.state # "exited" => server.exitCode = -1

\* C20: after a signal has reached the started server, kill() of the Storybook
\* process, when one was started, comes before every close of the server; the
\* process exits, with code 0, only after the close of the server has
\* completed; and once the close has completed the exit follows, with one
\* signal or more.
C20_Shutdown ==
    /\ []ShutdownInOrder
    /\ (server.state = "closed") ~> (server.state = "exited" /\ server.exitCode = 0)

\* two signals reached a server with a Storybook process, the close completed
\* and the process exited
C20_Witness ==
    /\ server.state = "exited" /\ server.exitCode = 0
    /\ server.signals = 2 /\ server.spawned = 1
    /\ log = <<"kill", "close", "kill", "close", "closed", "exit">>

====
